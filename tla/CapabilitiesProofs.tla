------------------------- MODULE CapabilitiesProofs -------------------------
(***************************************************************************)
(* Capabilities, for every set of options, interfaces and mechanisms.      *)
(***************************************************************************)
EXTENDS Capabilities, TLAPS

(* What a capability list stands for: each name on it was backed, when it    *)
(* was fetched, by conditions that no later step takes away.                 *)
ListInv ==
    /\ state \in {"authorization", "transaction"}
    /\ caps \cap opts.SuppressedCaps = {}
    /\ caps \cap {"USER", "SASL"} # {} => authAllowed
    /\ "STLS" \in caps => opts.TLSConfig
    /\ \A name \in {"LANG", "UTF8"} : name \in caps => name \in opts.ext
    /\ mechs # {} => "SASL" \in caps /\ "SASL" \in opts.ext
    /\ mechs \subseteq opts.mechs

(* ListInv is inductive: handleCapa establishes it and no login or STLS      *)
(* handshake that follows takes it away.                                     *)
THEOREM ListInvariance == CapaSpec => []ListInv
<1>1. CapaInit => ListInv
  BY DEF CapaInit, ListInv
<1>2. ListInv /\ [CapaNext]_capvars => ListInv'
  <2> SUFFICES ASSUME ListInv, [CapaNext]_capvars PROVE ListInv'
    OBVIOUS
  <2>1. CASE handleCapa
    BY <2>1 DEF ListInv, handleCapa, advertised, capSuppressed, authAllowed
  <2>2. ASSUME NEW cmd \in Commands, Command(cmd) PROVE ListInv'
    BY <2>2 DEF ListInv, Command, authAllowed
  <2>3. CASE UNCHANGED capvars
    BY <2>3 DEF ListInv, capvars, authAllowed
  <2> QED
    BY <2>1, <2>2, <2>3 DEF CapaNext
<1> QED
  BY <1>1, <1>2, PTL DEF CapaSpec

(* InvitesOnlyWhereAllowed for every configuration: a list handleCapa wrote  *)
(* asks for credentials only where authAllowed holds, and stays within       *)
(* Options.SuppressedCaps.                                                   *)
THEOREM InvitationsAllowed == CapaSpec => []InvitesOnlyWhereAllowed
<1>1. ListInv => InvitesOnlyWhereAllowed
  BY DEF ListInv, InvitesOnlyWhereAllowed
<1> QED
  BY <1>1, ListInvariance, PTL

(* PromiseKept for every configuration: what handleCapa advertised, the      *)
(* handlers accept when it is due, past logins and STLS.                     *)
THEOREM PromisesKept == CapaSpec => PromiseKept
<1>1. ListInv /\ [CapaNext]_capvars =>
        [\A cmd \in Commands :
            Command(cmd) /\ promised(cmd) /\ due(cmd) => answer'.accepted]_capvars
  <2> SUFFICES ASSUME ListInv, NEW cmd \in Commands, Command(cmd), promised(cmd), due(cmd)
               PROVE  answer'.accepted
    OBVIOUS
  <2>1. answer'.accepted = accepts(cmd)
    BY DEF Command
  <2>2. accepts(cmd)
    <3>1. CASE cmd = "USER"
      BY <3>1 DEF ListInv, promised, due, accepts
    <3>2. CASE cmd = "AUTH PLAIN"
      BY <3>2 DEF ListInv, promised, due, accepts
    <3>3. CASE cmd = "STLS"
      BY <3>3 DEF ListInv, promised, due, accepts
    <3>4. CASE cmd \in {"LANG", "UTF8"}
      BY <3>4 DEF ListInv, promised, due, accepts
    <3>5. CASE cmd \in {"TOP", "UIDL"}
      BY <3>5 DEF ListInv, promised, due, accepts
    <3> QED
      BY <3>1, <3>2, <3>3, <3>4, <3>5 DEF Commands
  <2> QED
    BY <2>1, <2>2
<1> QED
  BY <1>1, ListInvariance, PTL DEF CapaSpec, PromiseKept
=============================================================================
