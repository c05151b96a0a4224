---------------------------- MODULE Capabilities ----------------------------
(***************************************************************************)
(* What CAPA advertises (handleCapa, writeCap, capSuppressed in conn.go)   *)
(* and what the handlers then accept.  The two are written apart from each *)
(* other, and clients use a list long after they fetched it, past a login  *)
(* or an STLS (see the note on Outlook in dispatchTransaction).            *)
(*                                                                         *)
(* A command is refused here when the library refuses it by itself; what   *)
(* the Session says, and arguments, are left to Conn.                      *)
(***************************************************************************)
EXTENDS Integers

CONSTANTS
    InsecureAuths, TLSConfigs,  \* values of the options
    Exts,           \* the optional interfaces of a Session: sets of "SASL", "LANG", "UTF8"
    Mechanisms,     \* sets of SASL mechanisms a Session may return
    Suppressions    \* values of SuppressedCaps

Commands == {"USER", "AUTH PLAIN", "STLS", "LANG", "UTF8", "TOP", "UIDL"}
Names    == {"TOP", "UIDL", "USER", "RESP-CODES", "PIPELINING", "STLS", "SASL",
             "LANG", "UTF8", "CUSTOM"}

ASSUME CapabilitiesAssumption ==
    /\ InsecureAuths \subseteq BOOLEAN /\ TLSConfigs \subseteq BOOLEAN
    /\ Exts \subseteq SUBSET {"SASL", "LANG", "UTF8"}
    /\ Suppressions \subseteq SUBSET Names

VARIABLES
    opts,       \* the Server's Options and what the Session implements
    state,      \* "authorization" or "transaction"
    isTLS,
    \* what the client knows
    caps,       \* the last capability list it fetched
    mechs,      \* the mechanisms on its SASL line
    answer      \* its last command, and whether it was accepted

capvars == <<opts, state, isTLS, caps, mechs, answer>>

NoAnswer == [cmd |-> "none", accepted |-> FALSE]

------------------------------------------------------------------------------
(* The server.                                                               *)

authAllowed == opts.InsecureAuth \/ isTLS

capSuppressed(name) == name \in opts.SuppressedCaps

\* Mutant: USER whether or not authentication is allowed.
advertisedUSERAlways ==
    {"TOP", "UIDL", "RESP-CODES", "PIPELINING", "CUSTOM", "USER"}
        \cup (IF opts.TLSConfig /\ ~isTLS THEN {"STLS"} ELSE {})
        \cup (IF authAllowed /\ "SASL" \in opts.ext /\ opts.mechs # {} THEN {"SASL"} ELSE {})
        \cup (opts.ext \cap {"LANG", "UTF8"})

\* The capabilities handleCapa passes to writeCap, those of Options.Caps last.
advertised ==
    {"TOP", "UIDL", "RESP-CODES", "PIPELINING", "CUSTOM"}
        \cup (IF authAllowed THEN {"USER"} ELSE {})
        \cup (IF opts.TLSConfig /\ ~isTLS THEN {"STLS"} ELSE {})
        \cup (IF authAllowed /\ "SASL" \in opts.ext /\ opts.mechs # {} THEN {"SASL"} ELSE {})
        \cup (opts.ext \cap {"LANG", "UTF8"})

handleCapa ==
    /\ caps' = {name \in advertised : ~capSuppressed(name)}
    /\ mechs' = IF "SASL" \in caps' THEN opts.mechs ELSE {}
    /\ UNCHANGED <<opts, state, isTLS, answer>>

\* Mutant: UTF8 before authentication only, as RFC 6856 has it.
acceptsRFC6856(cmd) ==
    \/ cmd = "USER" /\ state = "authorization" /\ authAllowed
    \/ /\ cmd = "AUTH PLAIN" /\ state = "authorization" /\ authAllowed
       /\ "SASL" \in opts.ext /\ "PLAIN" \in opts.mechs
    \/ cmd = "STLS" /\ state = "authorization" /\ ~isTLS /\ opts.TLSConfig
    \/ cmd = "LANG" /\ "LANG" \in opts.ext
    \/ cmd = "UTF8" /\ state = "authorization" /\ "UTF8" \in opts.ext
    \/ cmd \in {"TOP", "UIDL"} /\ state = "transaction"

\* dispatch and the first conditions of the handlers.
accepts(cmd) ==
    \/ cmd = "USER" /\ state = "authorization" /\ authAllowed
    \/ /\ cmd = "AUTH PLAIN" /\ state = "authorization" /\ authAllowed
       /\ "SASL" \in opts.ext /\ "PLAIN" \in opts.mechs
    \/ cmd = "STLS" /\ state = "authorization" /\ ~isTLS /\ opts.TLSConfig
    \/ cmd = "LANG" /\ "LANG" \in opts.ext
    \/ cmd = "UTF8" /\ "UTF8" \in opts.ext
    \/ cmd \in {"TOP", "UIDL"} /\ state = "transaction"

\* Whether the list promises a client that the command works.  Of the SASL line
\* only PLAIN is a promise the library makes: whatever else a Session names there
\* is advertised too, and refused (session.go:123-125).
promised(cmd) == IF cmd = "AUTH PLAIN" THEN "PLAIN" \in mechs ELSE cmd \in caps

\* The client sends a command; an accepted STLS is followed by its handshake,
\* USER (with its PASS) and AUTH PLAIN by a login that succeeds or fails.
Command(cmd) ==
    /\ answer' = [cmd |-> cmd, accepted |-> accepts(cmd)]
    /\ isTLS' = (isTLS \/ (cmd = "STLS" /\ accepts(cmd)))
    /\ state' \in IF cmd \in {"USER", "AUTH PLAIN"} /\ accepts(cmd)
                  THEN {state, "transaction"} ELSE {state}
    /\ UNCHANGED <<opts, caps, mechs>>

CapaInit ==
    /\ opts \in [InsecureAuth : InsecureAuths, TLSConfig : TLSConfigs, ext : Exts,
                 mechs : Mechanisms, SuppressedCaps : Suppressions]
    /\ state = "authorization"
    /\ isTLS \in BOOLEAN        \* implicit TLS or not
    /\ caps = {} /\ mechs = {} /\ answer = NoAnswer

CapaNext == handleCapa \/ \E cmd \in Commands : Command(cmd)

CapaSpec == CapaInit /\ [][CapaNext]_capvars

------------------------------------------------------------------------------
(* Properties.                                                               *)

\* When a promise of the list can be called in: TOP and UIDL after the login,
\* USER, AUTH and STLS before it, STLS once, the others at any time.
due(cmd) ==
    /\ cmd \in {"TOP", "UIDL"} => state = "transaction"
    /\ cmd \in {"USER", "AUTH PLAIN", "STLS"} => state = "authorization"
    /\ cmd = "STLS" => ~isTLS

(* What a capability list promised is accepted whenever it is due, although  *)
(* the list may be from before a login or an STLS (handleUTF8 after PASS,    *)
(* say).  AUTH with a mechanism other than PLAIN is no promise: its refusal  *)
(* is documented (session.go:123-125).                                       *)
PromiseKept ==
    [][\A cmd \in Commands :
          Command(cmd) /\ promised(cmd) /\ due(cmd) => answer'.accepted]_capvars

(* A list invites to authenticate only where that is allowed, now and for    *)
(* the rest of the connection, and shows nothing Options.SuppressedCaps      *)
(* hides, custom capabilities included.                                      *)
InvitesOnlyWhereAllowed ==
    /\ caps \cap {"USER", "SASL"} # {} => authAllowed
    /\ caps \cap opts.SuppressedCaps = {}
=============================================================================
