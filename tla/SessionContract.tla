--------------------------- MODULE SessionContract ---------------------------
(***************************************************************************)
(* What pop3server promises to the author of a Session (session.go): which *)
(* methods may be called when, that calls never overlap, that the body     *)
(* returned by Retr or Top is closed before anything else is called, that  *)
(* Quit ends the conversation and that Close comes exactly once, last.     *)
(* The command loop of module Conn is shown to implement it.               *)
(***************************************************************************)

VARIABLES
    phase,   \* "none", "auth", "trans", "ended" (only Close may follow), "closed"
    busy     \* the method in progress, "Body" while a returned body is open, or "none"

cvars == <<phase, busy>>

AuthMethods == {"Login", "AuthenticatePlain"}

\* ListOne and UidlOne are List and Uidl with a message number.
TransMethods == {"Stat", "List", "ListOne", "Uidl", "UidlOne", "Retr", "Top",
                 "Dele", "Rset", "Noop", "Quit"}

\* LANG and UTF8 are accepted in both states.
ExtMethods == {"SetLanguage", "ListLanguages", "EnableUTF8"}

Methods == AuthMethods \cup TransMethods \cup ExtMethods

Allowed(p) ==
    CASE p = "auth"  -> AuthMethods \cup ExtMethods
      [] p = "trans" -> TransMethods \cup ExtMethods
      [] OTHER       -> {}

ContractTypeOK ==
    /\ phase \in {"none", "auth", "trans", "ended", "closed"}
    /\ busy \in Methods \cup {"none", "Body", "Close"}

ContractInit == phase = "none" /\ busy = "none"

Create ==
    /\ phase = "none"
    /\ phase' = "auth"
    /\ UNCHANGED busy

CallMethod ==
    /\ busy = "none"
    /\ busy' \in Allowed(phase)
    /\ UNCHANGED phase

\* The phases a method may leave behind: an authentication may succeed, Quit
\* always ends the conversation, and any call may end it.
After(m) ==
    CASE m \in AuthMethods -> {"auth", "trans", "ended"}
      [] m = "Quit"        -> {"ended"}
      [] OTHER             -> {phase, "ended"}

ReturnMethod ==
    /\ busy \in Methods
    /\ phase' \in After(busy)
    /\ \/ busy' = "none"
       \/ busy \in {"Retr", "Top"} /\ busy' = "Body" /\ phase' = phase

CloseBody ==
    /\ busy = "Body"
    /\ busy' = "none"
    /\ phase' \in {phase, "ended"}

\* The library gives the connection up between two calls.
End ==
    /\ busy = "none"
    /\ phase \in {"auth", "trans"}
    /\ phase' = "ended"
    /\ UNCHANGED busy

CallClose ==
    /\ busy = "none"
    /\ phase = "ended"
    /\ phase' = "closed"
    /\ busy' = "Close"

ReturnClose ==
    /\ busy = "Close"
    /\ busy' = "none"
    /\ UNCHANGED phase

ContractNext ==
    \/ Create \/ CallMethod \/ ReturnMethod \/ CloseBody \/ End
    \/ CallClose \/ ReturnClose

ContractSpec == ContractInit /\ [][ContractNext]_cvars
==============================================================================
