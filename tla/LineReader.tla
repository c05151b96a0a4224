----------------------------- MODULE LineReader -----------------------------
(***************************************************************************)
(* Conn.readLine (pop3server/conn.go) over bufio.Reader: how the octets a  *)
(* client sends become the lines the command loop executes.                *)
(*                                                                         *)
(* bufio.Reader.ReadLine returns a line without its line end, or, when its *)
(* buffer is full, a prefix of one (a CR at the end of the buffer is kept  *)
(* back: it may belong to the line end); readLine puts the pieces together *)
(* and refuses a line longer than MaxLineLength.  When a read of the       *)
(* connection fails, ReadLine returns what the buffer holds as a line and  *)
(* reports no error.                                                       *)
(***************************************************************************)
EXTENDS Integers, Sequences, FiniteSets

CONSTANTS
    Inputs,         \* what a client may send
    BufSize,        \* size of the bufio.Reader
    MaxLineLength,  \* Options.MaxLineLength
    Interruptions   \* whether a read may fail, by a timeout or the end of the connection

ASSUME LineReaderAssumption ==
    /\ Inputs \subseteq Seq({"x", "CR", "LF"})
    /\ BufSize \in Nat \ {0, 1} /\ MaxLineLength \in Nat
    /\ Interruptions \in BOOLEAN

VARIABLES
    input,      \* what the client sends
    pos,        \* octets of it in or through the buffer
    rbuf,       \* the buffered, unread octets
    line,       \* readLine's line, the pieces so far
    lines,      \* the lines returned to the command loop
    halved,     \* history: a read failed inside a line, and the half was returned
    status      \* "reading", "tooLong" or "failed"

lvars == <<input, pos, rbuf, line, lines, halved, status>>

------------------------------------------------------------------------------
(* bufio.Reader.                                                             *)

endsIn(s, c) == s # <<>> /\ s[Len(s)] = c
dropLast(s)  == SubSeq(s, 1, Len(s) - 1)

hasLF == \E i \in 1..Len(rbuf) : rbuf[i] = "LF"
full  == Len(rbuf) = BufSize

\* A read of the connection brings some octets.
Fill ==
    /\ status = "reading" /\ ~hasLF /\ ~full
    /\ \E n \in 1..(BufSize - Len(rbuf)) :
          /\ pos + n <= Len(input)
          /\ rbuf' = rbuf \o SubSeq(input, pos + 1, pos + n)
          /\ pos' = pos + n
    /\ UNCHANGED <<input, line, lines, halved, status>>

------------------------------------------------------------------------------
(* readLine.                                                                 *)

\* Mutant: the pieces before the last are forgotten.
joinForgets(chunk) == chunk

\* A piece is added to the line.
join(chunk) == line \o chunk

tooLong(l) == Len(l) > MaxLineLength

\* The last piece of a line: it is returned, or refused.
EndLine(chunk) ==
    IF tooLong(join(chunk))
    THEN status' = "tooLong" /\ UNCHANGED <<line, lines>>
    ELSE lines' = Append(lines, join(chunk)) /\ line' = <<>> /\ UNCHANGED status

WholeLine ==
    /\ status = "reading" /\ hasLF
    /\ LET e == CHOOSE i \in 1..Len(rbuf) :
                    rbuf[i] = "LF" /\ (\A j \in 1..(i - 1) : rbuf[j] # "LF")
           chunk == SubSeq(rbuf, 1, e - 1)
       IN  /\ rbuf' = SubSeq(rbuf, e + 1, Len(rbuf))
           /\ EndLine(IF endsIn(chunk, "CR") THEN dropLast(chunk) ELSE chunk)
    /\ UNCHANGED <<input, pos, halved>>

\* Mutant: the length is looked at when the line is complete only.
PrefixUnchecked ==
    /\ status = "reading" /\ ~hasLF /\ full
    /\ rbuf' = IF endsIn(rbuf, "CR") THEN <<"CR">> ELSE <<>>
    /\ line' = join(IF endsIn(rbuf, "CR") THEN dropLast(rbuf) ELSE rbuf)
    /\ UNCHANGED <<input, pos, lines, halved, status>>

\* A prefix: the loop goes on unless the line is too long already.
Prefix ==
    /\ status = "reading" /\ ~hasLF /\ full
    /\ rbuf' = IF endsIn(rbuf, "CR") THEN <<"CR">> ELSE <<>>
    /\ LET l == join(IF endsIn(rbuf, "CR") THEN dropLast(rbuf) ELSE rbuf)
       IN  IF tooLong(l) THEN status' = "tooLong" /\ UNCHANGED line
           ELSE line' = l /\ UNCHANGED status
    /\ UNCHANGED <<input, pos, lines, halved>>

\* A read fails: with an empty buffer readLine returns the error and serve
\* ends the connection ...
ReadFails ==
    /\ Interruptions
    /\ status = "reading" /\ rbuf = <<>>
    /\ status' = "failed"
    /\ UNCHANGED <<input, pos, rbuf, line, lines, halved>>

\* ... with a half line in it the half line is returned.
HalfLine ==
    /\ Interruptions
    /\ status = "reading" /\ rbuf # <<>> /\ ~hasLF /\ ~full
    /\ rbuf' = <<>>
    /\ EndLine(rbuf)
    /\ halved' = TRUE
    /\ UNCHANGED <<input, pos>>

------------------------------------------------------------------------------

Init ==
    /\ input \in Inputs
    /\ pos = 0 /\ rbuf = <<>> /\ line = <<>> /\ lines = <<>>
    /\ halved = FALSE /\ status = "reading"

\* The connection is given up, or waits for a client that says no more.
Quiet ==
    /\ status = "reading" => pos = Len(input) /\ ~hasLF /\ ~full
    /\ UNCHANGED lvars

Next == Fill \/ WholeLine \/ Prefix \/ ReadFails \/ HalfLine \/ Quiet

Spec == Init /\ [][Next]_lvars

------------------------------------------------------------------------------
(* Properties.                                                               *)

(* Every variable keeps its type, and however much a client sends without a  *)
(* line end, no more than MaxLineLength octets and one buffer are kept.      *)
LineReaderTypeOK ==
    /\ input \in Seq({"x", "CR", "LF"}) /\ pos \in 0..Len(input)
    /\ rbuf \in Seq({"x", "CR", "LF"}) /\ Len(rbuf) <= BufSize
    /\ line \in Seq({"x", "CR"}) /\ Len(line) <= MaxLineLength
    /\ lines \in Seq(Seq({"x", "CR"})) /\ halved \in BOOLEAN
    /\ status \in {"reading", "tooLong", "failed"}

\* Reference: the places of the LFs, and the k-th line of what the client sends.
LFs == {i \in 1..Len(input) : input[i] = "LF"}

lfAt(k) == IF k = 0 THEN 0
           ELSE CHOOSE i \in LFs : Cardinality({j \in LFs : j <= i}) = k

sentLine(k) ==
    LET l == SubSeq(input, lfAt(k - 1) + 1, lfAt(k) - 1)
    IN  IF endsIn(l, "CR") THEN dropLast(l) ELSE l

\* The line that readLine has not returned, as far as the client sends it.
pendingLine ==
    LET k == Len(lines) + 1
        rest == SubSeq(input, lfAt(k - 1) + 1, Len(input))
    IN  IF k <= Cardinality(LFs) THEN sentLine(k)
        ELSE IF endsIn(rest, "CR") THEN dropLast(rest) ELSE rest

\* The lines the command loop got are the first lines the client sent.
asSent == /\ Len(lines) <= Cardinality(LFs)
          /\ \A k \in 1..Len(lines) : lines[k] = sentLine(k)

(* The lines the command loop gets are the lines the client sent, each       *)
(* without its line end, wherever a read or the buffer cuts them, as long as *)
(* no read fails inside a line; and a line is refused only when it is longer *)
(* than MaxLineLength, its line end not counted.                             *)
LinesExact ==
    ~halved => /\ asSent
               /\ status = "tooLong" => Len(pendingLine) > MaxLineLength
=============================================================================
