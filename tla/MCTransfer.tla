----------------------------- MODULE MCTransfer -----------------------------
(***************************************************************************)
(* Transfer for TLC: RETR of every body of up to MaxLen octets, TOP of     *)
(* every message of up to MaxLines lines.                                  *)
(***************************************************************************)
EXTENDS Transfer, SequencesExt

CONSTANTS
    MaxLen,         \* bound: octets in a body
    MaxLines        \* bound: lines of a message, the last one perhaps unended

MCBodies == UNION {[1..n -> {"CR", "LF", ".", "x"}] : n \in 0..MaxLen}

\* With CRLF, with LF and with both for line ends.
Lines == {CRLF, <<"LF">>, <<"x", "CR", "LF">>, <<".", "CR", "LF">>, <<"x", "LF">>}

MCTopBodies ==
    {FlattenSeq(ls) \o last : ls \in UNION {[1..n -> Lines] : n \in 0..MaxLines},
                              last \in {<<>>, <<"x">>}}
=============================================================================
