------------------------------- MODULE MCConn -------------------------------
(* Small option sets for module Conn.                                        *)
EXTENDS Conn

\* Everything left at its zero value but what a server needs to be useful.
Plain ==
    [ InsecureAuth |-> FALSE, TLSConfig |-> TRUE, MaxErrors |-> 2,
      AuthFailuresExemptFromMaxErrors |-> FALSE, ErrorDelay |-> 1,
      MaxErrorDelay |-> 0, IdleTimeout |-> 0, AuthIdleTimeout |-> 0,
      AbsoluteSessionTimeout |-> 0, CommandTimeout |-> 0, WriteTimeout |-> 0,
      UnknownCommandHandler |-> FALSE, SessionExt |-> {"SASL", "LANG", "UTF8"} ]

\* A plaintext server with all the optional parts.
Insecure ==
    [Plain EXCEPT !.InsecureAuth = TRUE, !.UnknownCommandHandler = TRUE,
                  !.AbsoluteSessionTimeout = 5, !.CommandTimeout = 2]

\* Failed logins do not count, a single protocol error is fatal, and of the timers
\* on reads only the absolute one is set.
Exempt ==
    [Plain EXCEPT !.InsecureAuth = TRUE, !.AuthFailuresExemptFromMaxErrors = TRUE,
                  !.MaxErrors = 1, !.IdleTimeout = -1, !.AbsoluteSessionTimeout = 5,
                  !.SessionExt = {}]

\* No limits: MaxErrors, IdleTimeout and WriteTimeout are disabled.
Unlimited ==
    [Plain EXCEPT !.InsecureAuth = TRUE, !.MaxErrors = -1, !.IdleTimeout = -1,
                  !.AuthIdleTimeout = 1, !.WriteTimeout = -1, !.TLSConfig = FALSE]

AllOptions == {Plain, Insecure, Exempt, Unlimited}
TimedOptions == {Exempt}
=============================================================================
