------------------------------ MODULE TopLines ------------------------------
(***************************************************************************)
(* topBytes (pop3mem/store.go): the header block of a message, the blank   *)
(* line after it and the first n lines of the body, as TOP returns them,   *)
(* with the reference definition it is checked against.                    *)
(***************************************************************************)
EXTENDS Integers, Sequences, FiniteSets

\* bytes.Index: where s begins in d, 0 if nowhere.
indexOf(d, s) ==
    LET places == {i \in 1..(Len(d) - Len(s) + 1) : SubSeq(d, i, i + Len(s) - 1) = s}
    IN  IF places = {} THEN 0 ELSE CHOOSE i \in places : \A j \in places : i <= j

\* The end of the separator, 0 without one: a CRLFCRLF anywhere comes before
\* any LFLF.
headerEnd(d) ==
    LET crlf == indexOf(d, <<"CR", "LF", "CR", "LF">>)
        lf   == indexOf(d, <<"LF", "LF">>)
    IN  IF crlf > 0 THEN crlf + 3 ELSE IF lf > 0 THEN lf + 1 ELSE 0

\* Mutant: what follows the last LF is lost.
lineAfterLoses(d, i) == i + indexOf(SubSeq(d, i + 1, Len(d)), <<"LF">>)

\* The end of the line that begins after place i: at its LF, or where the
\* message ends.
lineAfter(d, i) ==
    LET e == indexOf(SubSeq(d, i + 1, Len(d)), <<"LF">>)
    IN  IF e = 0 THEN Len(d) ELSE i + e

\* Without a separator the whole message is returned.
topBytes(d, n) ==
    LET end[count \in 0..n] ==      \* of the loop over the body
            IF count = 0 THEN headerEnd(d) ELSE lineAfter(d, end[count - 1])
    IN  IF headerEnd(d) = 0 THEN d ELSE SubSeq(d, 1, end[n])

------------------------------------------------------------------------------
(* Reference.                                                                *)

\* The line that ends at place i is empty.
isBlank(d, i) ==
    /\ d[i] = "LF"
    /\ \/ i = 1 \/ d[i - 1] = "LF"
       \/ d[i - 1] = "CR" /\ (i = 2 \/ d[i - 2] = "LF")

blanks(d) == {i \in 1..Len(d) : isBlank(d, i)}

firstBlank(d) == IF blanks(d) = {} THEN Len(d)
                 ELSE CHOOSE i \in blanks(d) : \A j \in blanks(d) : i <= j

\* Where the k-th line after the first blank line ends, or the message does.
topEnd(d, k) ==
    LET ends == {i \in 1..Len(d) : i > firstBlank(d) /\ (d[i] = "LF" \/ i = Len(d))}
    IN  IF k = 0 THEN firstBlank(d)
        ELSE IF k > Cardinality(ends) THEN Len(d)
        ELSE CHOOSE i \in ends : Cardinality({j \in ends : j <= i}) = k

\* One kind of line end, CRLF or LF, and no other CR.
uniform(d) ==
    \/ \A i \in 1..Len(d) : d[i] # "CR"
    \/ /\ \A i \in 1..Len(d) : d[i] = "LF" => i > 1 /\ d[i - 1] = "CR"
       /\ \A i \in 1..Len(d) : d[i] = "CR" => i < Len(d) /\ d[i + 1] = "LF"
=============================================================================
