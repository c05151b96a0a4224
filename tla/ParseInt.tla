------------------------------ MODULE ParseInt ------------------------------
(***************************************************************************)
(* parseInt (pop3server/conn.go): message numbers and line counts from the *)
(* text of an argument, with Go's int wrapping around.                     *)
(*                                                                         *)
(* The widths are scaled down: MaxVal stands for 2^31 - 1, the largest     *)
(* number accepted, and MaxInt for the largest int of the platform.        *)
(***************************************************************************)
EXTENDS Integers, Sequences

CONSTANTS
    MaxVal,     \* maxVal
    MaxInt      \* the largest int

ASSUME ParseIntAssumption ==
    MaxVal \in Nat /\ MaxInt \in Nat /\ MaxVal <= MaxInt

\* A character that is not a digit.
NotDigit == -1

\* Two's complement: what an int holds after a computation of x.
wrap(x) == ((x + MaxInt + 1) % (2 * (MaxInt + 1))) - (MaxInt + 1)

invalid == [ok |-> FALSE, n |-> 0]

\* Mutant: the limit itself is refused.
inRangeStrict(n) == n < MaxVal

inRange(n) == n <= MaxVal

\* One turn of the loop.
addDigit(n, c) ==
    IF c = NotDigit \/ ~inRange(wrap(n * 10 + c)) THEN invalid
    ELSE [ok |-> TRUE, n |-> wrap(n * 10 + c)]

parseInt(s) ==
    LET upTo[i \in 0..Len(s)] ==
            IF i = 0 THEN [ok |-> s # <<>>, n |-> 0]
            ELSE IF upTo[i - 1].ok THEN addDigit(upTo[i - 1].n, s[i])
            ELSE invalid
    IN  upTo[Len(s)]

------------------------------------------------------------------------------
(* Reference.                                                                *)

isNumber(s) == s # <<>> /\ \A i \in 1..Len(s) : s[i] # NotDigit

\* The number the digits of s stand for.
value(s) ==
    LET upTo[i \in 0..Len(s)] == IF i = 0 THEN 0 ELSE upTo[i - 1] * 10 + s[i]
    IN  upTo[Len(s)]
=============================================================================
