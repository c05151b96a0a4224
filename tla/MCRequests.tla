----------------------------- MODULE MCRequests -----------------------------
(***************************************************************************)
(* What a request is read and converted with, for TLC: every stream of up  *)
(* to MaxLen octets is read (LineReader), every conversion is called with  *)
(* every argument up to a length (Conversions), and every list that CAPA   *)
(* answers is used (Capabilities).  The three share no state, so a         *)
(* behaviour does one of them and leaves the others as they begin.         *)
(***************************************************************************)
EXTENDS LineReader, Conversions, Capabilities

CONSTANTS
    MaxLen,         \* bound: octets a client sends
    MaxArg,         \* bound: characters in an argument of parseInt
    MaxName, MaxPassword        \* bounds: characters of credentials

VARIABLE part       \* "read", "convert" or "capa"

MCInputs == UNION {[1..n -> {"x", "CR", "LF"}] : n \in 0..MaxLen}

MCArgs == UNION {[1..n -> 0..9 \cup {-1}] : n \in 0..MaxArg}

texts(max) == UNION {[1..n -> Chars] : n \in 0..max}

MCIdentities == texts(1)
MCUsernames  == texts(MaxName)
MCPasswords  == texts(MaxPassword)

rvars == <<lvars, callVars, capvars, part>>

\* A part that is left out of the behaviour.
NoInput == input = <<>>
NoCalls == call = NoCall /\ result = NoResult /\ returned = FALSE
NoCapa  == isTLS = FALSE /\ opts = [ InsecureAuth |-> FALSE, TLSConfig |-> FALSE, ext |-> {},
                                  mechs |-> {}, SuppressedCaps |-> {} ]

MCInit ==
    \/ part = "read"    /\ Init /\ NoCalls /\ NoCapa /\ CapaInit
    \/ part = "convert" /\ NoInput /\ Init /\ CallInit /\ NoCapa /\ CapaInit
    \/ part = "capa"    /\ NoInput /\ Init /\ NoCalls /\ CapaInit

MCNext ==
    \/ part = "read" /\ Next /\ UNCHANGED <<callVars, capvars, part>>
    \/ part = "convert" /\ Call /\ UNCHANGED <<lvars, capvars, part>>
    \/ part = "convert" /\ returned /\ UNCHANGED rvars
    \/ part = "capa" /\ CapaNext /\ UNCHANGED <<lvars, callVars, part>>

MCSpec == MCInit /\ [][MCNext]_rvars
=============================================================================
