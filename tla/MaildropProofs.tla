--------------------------- MODULE MaildropProofs ---------------------------
(***************************************************************************)
(* Proofs about Maildrop, for every set of users and sessions and every    *)
(* number of messages: what its runs check, and that it implements         *)
(* Mailbox.                                                                *)
(*                                                                         *)
(* The accounting is not inductive as numbers: MaildropInv says of sets    *)
(* that they cover all messages and do not meet, and the numbers follow.   *)
(* A number of a session keeps its meaning because a snapshot never        *)
(* changes after the login (SessionOK), and a session that outlives its    *)
(* account removes nothing from the new one because they share no message  *)
(* (StaleOK).                                                              *)
(***************************************************************************)
EXTENDS Maildrop, Induction, FiniteSetTheorems

\* The elements of a list are what stands at its places.
LEMMA Elements ==
    ASSUME NEW S, NEW l \in Seq(S)
    PROVE  /\ ToSet(l) \subseteq S
           /\ \A m : m \in ToSet(l) <=> \E i \in 1..Len(l) : l[i] = m
  BY DEF ToSet

\* What the loop of expunge leaves: the messages that are not to be removed,
\* in the order they had.
LEMMA WithoutKeeps ==
    ASSUME NEW S, S \subseteq Int, NEW l \in Seq(S), NEW r
    PROVE  /\ without(l, r) \in Seq(S)
           /\ ToSet(without(l, r)) = ToSet(l) \ r
           /\ inOrder(l) => inOrder(without(l, r))
<1> DEFINE n == Len(l)
           V == Seq(S)
           b == << >>
           step == [i \in 1..n |-> [x \in V |->
                       IF l[i] \in r THEN x ELSE Append(x, l[i])]]
           Turn(f, i) == IF i = 0 THEN << >>
                         ELSE IF l[i] \in r THEN f[i - 1]
                         ELSE Append(f[i - 1], l[i])
           IsKept(f) == f = [i \in 0..n |-> Turn(f, i)]
           kept == CHOOSE f : IsKept(f)
<1>1. n \in Nat /\ b \in V /\ \A i \in 1..n : l[i] \in S
  OBVIOUS
<1>2. step \in Steps(n, V)
  BY <1>1 DEF Steps
<1>3. PICK g : Loop(g, n, V, b, step)
  <2> HIDE DEF n, V, b, step
  <2> QED
    BY <1>1, <1>2, LoopFunction
<1>4. \A i \in 0..n : g[i] = Turn(g, i)
  <2> SUFFICES ASSUME NEW i \in 0..n
               PROVE  g[i] = Turn(g, i)
    OBVIOUS
  <2>1. CASE i = 0
    BY <2>1, <1>3 DEF Loop
  <2>2. CASE i \in 1..n
    <3>1. g[i - 1] \in Seq(S)
      BY <1>1, <1>3, <2>2 DEF Loop
    <3> QED
      BY <2>2, <3>1, <1>3 DEF Loop
  <2> QED
    BY <1>1, <2>1, <2>2
<1>5. IsKept(g)
  <2> HIDE DEF Turn, n, V, b, step
  <2>1. g = [i \in 0..n |-> g[i]]
    BY <1>3 DEF Loop
  <2> QED
    BY <2>1, <1>4
<1>6. IsKept(kept)
  <2> HIDE DEF IsKept
  <2> QED
    BY <1>5
<1>7. without(l, r) = kept[n]
  BY DEF without
<1>8. \A i \in 0..n : kept[i] = Turn(kept, i)
  <2> HIDE DEF Turn, kept, n
  <2> QED
    BY <1>6
<1> DEFINE Good(i) == /\ kept[i] \in Seq(S)
                      /\ ToSet(kept[i]) = {l[j] : j \in 1..i} \ r
                      /\ inOrder(l) => inOrder(kept[i])
           I == {i \in Nat : i <= n => Good(i)}
<1> HIDE DEF kept, step, IsKept, V, b
<1>9. 0 \in I
  <2>1. kept[0] = << >>
    BY <1>1, <1>8
  <2>2. ToSet(<< >>) = {} /\ {l[j] : j \in 1..0} \ r = {}
    BY DEF ToSet
  <2>3. inOrder(<< >>)
    BY DEF inOrder
  <2>4. << >> \in Seq(S)
    OBVIOUS
  <2>5. Good(0)
    BY <2>1, <2>2, <2>3, <2>4, Zenon
  <2> HIDE DEF Good
  <2> QED
    BY <2>5
<1>10. ASSUME NEW i \in Nat, i \in I
       PROVE  i + 1 \in I
  <2> SUFFICES ASSUME i + 1 <= n
               PROVE  Good(i + 1)
    OBVIOUS
  <2> DEFINE x == l[i + 1]
             k == kept[i]
  <2>1. /\ k \in Seq(S)
        /\ ToSet(k) = {l[j] : j \in 1..i} \ r
        /\ inOrder(l) => inOrder(k)
    BY <1>1, <1>10
  <2>2. kept[i + 1] = IF x \in r THEN k ELSE Append(k, x)
    BY <1>1, <1>8
  <2>3. {l[j] : j \in 1..(i + 1)} = {l[j] : j \in 1..i} \cup {x}
    BY <1>1
  <2>4. CASE x \in r
    BY <2>1, <2>2, <2>3, <2>4
  <2>5. CASE x \notin r
    <3>1. kept[i + 1] = Append(k, x) /\ x \in S
      BY <1>1, <2>2, <2>5
    <3> HIDE DEF x, k
    <3>2. Append(k, x) \in Seq(S)
      BY <2>1, <3>1
    <3>3. ToSet(Append(k, x)) = ToSet(k) \cup {x}
      <4>1. Len(Append(k, x)) = Len(k) + 1
        BY <2>1, <3>1
      <4>2. \A j \in 1..Len(k) : Append(k, x)[j] = k[j]
        BY <2>1, <3>1
      <4>3. Append(k, x)[Len(k) + 1] = x
        BY <2>1, <3>1
      <4>4. DOMAIN Append(k, x) = 1..(Len(k) + 1) /\ DOMAIN k = 1..Len(k) /\ Len(k) \in Nat
        BY <2>1, <3>1
      <4>5. 1..(Len(k) + 1) = (1..Len(k)) \cup {Len(k) + 1}
        BY <4>4
      <4> HIDE DEF I
      <4> QED
        BY <4>2, <4>3, <4>4, <4>5 DEF ToSet
    <3>4. ASSUME inOrder(l)
          PROVE  inOrder(Append(k, x))
      <4>1. ASSUME NEW j \in 1..Len(k)
            PROVE  k[j] < x
        <5>1. k[j] \in ToSet(k)
          BY <2>1 DEF ToSet
        <5>2. PICK h \in 1..i : k[j] = l[h]
          BY <5>1, <2>1
        <5> QED
          BY <5>2, <1>1, <3>4 DEF x, inOrder
      <4> QED
        BY <4>1, <2>1, <3>1, <3>4 DEF inOrder
    <3> QED
      BY <2>1, <2>3, <2>5, <3>1, <3>2, <3>3, <3>4
  <2> QED
    BY <2>4, <2>5
<1>11. n \in I
  <2> HIDE DEF I, n
  <2> QED
    BY <1>1, <1>9, <1>10, InductiveSet
<1>12. {l[j] : j \in 1..n} = ToSet(l)
  BY DEF ToSet
<1> QED
  BY <1>1, <1>7, <1>11, <1>12

\* The m-th place of a list in the order of arrival holds message m or a later one.
LEMMA PlacesBounded ==
    ASSUME NEW n \in Nat, NEW l \in Seq(1..n), inOrder(l)
    PROVE  \A i \in 1..Len(l) : i <= l[i]
<1> DEFINE I == {i \in Nat : i + 1 \in 1..Len(l) => i + 1 <= l[i + 1]}
<1>1. 0 \in I
  OBVIOUS
<1>2. ASSUME NEW i \in Nat, i \in I
      PROVE  i + 1 \in I
  BY <1>2 DEF inOrder
<1>3. \A i \in Nat : i \in I
  <2> HIDE DEF I
  <2> QED
    BY <1>1, <1>2, InductiveSet
<1> QED
  <2> SUFFICES ASSUME NEW i \in 1..Len(l)
               PROVE  i <= l[i]
    OBVIOUS
  <2>1. i - 1 \in Nat /\ (i - 1) + 1 = i
    OBVIOUS
  <2> QED
    BY <1>3, <2>1

------------------------------------------------------------------------------
(* The inductive invariant.                                                  *)

\* A session has seen and done nothing before its login, removes nothing before its
\* Quit, and shows what its snapshot holds; its user keeps existing.
SessionOK(s) ==
    /\ phase[s] \in {"none", "auth"} =>
          msgs[s] = <<>> /\ deleted[s] = {} /\ shown[s] = {} /\ s \notin stale
    /\ phase[s] \in {"none", "auth", "trans"} => expunged[s] = {}
    /\ phase[s] = "trans" => password[username[s]] # NoAccount
    /\ \A x \in shown[s] : x[1] \in 1..Len(msgs[s]) /\ x[2] = msgs[s][x[1]]

\* A session whose account was replaced shares no message with the new one.
StaleOK(s) ==
    s \in stale => /\ expunged[s] = {}
                   /\ phase[s] = "trans" =>
                         ToSet(msgs[s]) \cap ToSet(messages[username[s]]) = {}

\* Every message is somewhere, and no message is in two places.
Somewhere ==
    \A m \in 1..arrived : \/ \E u \in Users : m \in ToSet(messages[u])
                          \/ \E s \in Sessions : m \in expunged[s]
                          \/ m \in wiped

Apart ==
    /\ \A u, v \in Users : u # v => ToSet(messages[u]) \cap ToSet(messages[v]) = {}
    /\ \A s, t \in Sessions : s # t => expunged[s] \cap expunged[t] = {}
    /\ \A u \in Users, s \in Sessions : ToSet(messages[u]) \cap expunged[s] = {}
    /\ \A u \in Users : ToSet(messages[u]) \cap wiped = {}
    /\ \A s \in Sessions : expunged[s] \cap wiped = {}

MaildropInv ==
    /\ MaildropTypeOK
    /\ \A s \in Sessions : SessionOK(s) /\ StaleOK(s)
    /\ Somewhere
    /\ Apart

\* A list of messages stays one when another message arrives.
LEMMA ListsGrow ==
    ASSUME NEW n \in Nat, NEW l \in Seq(1..n)
    PROVE  l \in Seq(1..(n + 1))
  OBVIOUS

\* What expunge leaves of an account.
LEMMA ExpungeKeeps ==
    ASSUME MaildropTypeOK, NEW u \in Users, NEW r
    PROVE  /\ expunge(u, r) \in Seq(1..arrived) /\ inOrder(expunge(u, r))
           /\ ToSet(expunge(u, r)) \subseteq ToSet(messages[u])
           /\ password[u] # NoAccount => ToSet(expunge(u, r)) = ToSet(messages[u]) \ r
<1>1. /\ messages[u] \in Seq(1..arrived)
      /\ inOrder(messages[u])
      /\ 1..arrived \subseteq Int
  BY DEF MaildropTypeOK
<1>2. CASE password[u] = NoAccount
  BY <1>1, <1>2 DEF expunge
<1>3. CASE password[u] # NoAccount
  <2>1. expunge(u, r) = without(messages[u], r)
    BY <1>3 DEF expunge
  <2> DEFINE l == messages[u]
             S == 1..arrived
  <2>2. l \in Seq(S) /\ inOrder(l) /\ S \subseteq Int
    BY <1>1
  <2> HIDE DEF l, S
  <2>3. /\ without(l, r) \in Seq(S) /\ inOrder(without(l, r))
        /\ ToSet(without(l, r)) = ToSet(l) \ r
    BY <2>2, WithoutKeeps
  <2> QED
    BY <2>1, <2>3 DEF l, S
<1> QED
  BY <1>2, <1>3

\* What a client is shown is a number of its snapshot and the message there.
LEMMA ShowTyped ==
    ASSUME MaildropTypeOK, NEW s \in Sessions, NEW ns \in SUBSET (1..Len(msgs[s])),
           Show(s, ns)
    PROVE  /\ shown' \in [Sessions -> SUBSET (Nat \X (1..arrived))]
           /\ \A t \in Sessions \ {s} : shown'[t] = shown[t]
           /\ shown'[s] = shown[s] \cup {<<n, msgs[s][n]>> : n \in ns}
<1> DEFINE new == {<<n, msgs[s][n]>> : n \in ns}
<1>1. new \subseteq Nat \X (1..arrived)
  BY DEF MaildropTypeOK
<1>2. shown' = [shown EXCEPT ![s] = @ \cup new]
  BY DEF Show, msgAt
<1> HIDE DEF new
<1>3. shown[s] \cup new \in SUBSET (Nat \X (1..arrived))
  BY <1>1 DEF MaildropTypeOK
<1>4. /\ shown' \in [Sessions -> SUBSET (Nat \X (1..arrived))]
      /\ \A t \in Sessions \ {s} : shown'[t] = shown[t]
      /\ shown'[s] = shown[s] \cup new
  BY <1>2, <1>3 DEF MaildropTypeOK
<1> QED
  BY <1>4 DEF new

\* The types hold at first.
LEMMA TypeInit == Init => MaildropTypeOK
<1> SUFFICES ASSUME Init
             PROVE  MaildropTypeOK
  OBVIOUS
<1>1. (CHOOSE u \in Users : TRUE) \in Users
  BY MaildropAssumption
<1>2. inOrder(<< >>)
  BY DEF inOrder
<1> QED
  BY <1>1, <1>2, MaildropAssumption DEF Init, MaildropTypeOK

\* Every step keeps the types.
LEMMA TypeStep == MaildropInv /\ [Next]_mvars => MaildropTypeOK'
<1> SUFFICES ASSUME MaildropInv, [Next]_mvars
             PROVE  MaildropTypeOK'
  OBVIOUS
<1> MaildropTypeOK
  BY DEF MaildropInv
<1> USE DEF storeVars, sessionVars, historyVars
<1>1. CASE UNCHANGED mvars
  BY <1>1 DEF mvars, MaildropTypeOK, inOrder
<1>2. ASSUME NEW u \in Users, AddMessage(u)
      PROVE  MaildropTypeOK'
  <2>1. arrived \in Nat /\ arrived' \in 0..MaxMessages /\ arrived' = arrived + 1
    BY <1>2, MaildropAssumption DEF AddMessage, MaildropTypeOK
  <2>2. messages' \in [Users -> Seq(1..arrived')]
    <3>1. \A v \in Users : messages[v] \in Seq(1..arrived')
      BY <2>1, ListsGrow DEF MaildropTypeOK
    <3>2. Append(messages[u], arrived + 1) \in Seq(1..arrived')
      BY <2>1, <3>1
    <3> QED
      BY <1>2, <3>1, <3>2 DEF AddMessage, MaildropTypeOK
  <2>3. msgs' \in [Sessions -> Seq(1..arrived')]
    BY <1>2, <2>1, ListsGrow DEF AddMessage, MaildropTypeOK
  <2>4. ASSUME NEW v \in Users
        PROVE  inOrder(messages'[v])
    <3>1. CASE v # u
      BY <1>2, <3>1 DEF AddMessage, MaildropTypeOK
    <3>2. CASE v = u
      <4>1. messages'[u] = Append(messages[u], arrived + 1)
        BY <1>2 DEF AddMessage, MaildropTypeOK
      <4>2. messages[u] \in Seq(1..arrived) /\ inOrder(messages[u])
        BY DEF MaildropTypeOK
      <4> QED
        BY <2>1, <3>2, <4>1, <4>2 DEF inOrder
    <3> QED
      BY <3>1, <3>2
  <2>5. shown' \in [Sessions -> SUBSET (Nat \X (1..arrived'))]
    BY <1>2, <2>1 DEF AddMessage, MaildropTypeOK
  <2>6. /\ expunged' \in [Sessions -> SUBSET (1..arrived')]
        /\ wiped' \subseteq 1..arrived'
    BY <1>2, <2>1 DEF AddMessage, MaildropTypeOK
  <2> QED
    BY <1>2, <2>1, <2>2, <2>3, <2>4, <2>5, <2>6 DEF AddMessage, MaildropTypeOK
<1>3. ASSUME NEW u \in Users, NEW p \in Passwords, AddUser(u, p)
      PROVE  MaildropTypeOK'
  <2>1. << >> \in Seq(1..arrived) /\ inOrder(<< >>)
    BY DEF inOrder
  <2>2. ToSet(messages[u]) \subseteq 1..arrived
    BY Elements DEF MaildropTypeOK
  <2> QED
    BY <1>3, <2>1, <2>2 DEF AddUser, MaildropTypeOK
<1>4. ASSUME NEW s \in Sessions, NewSession(s) \/ Rset(s) \/ Close(s)
      PROVE  MaildropTypeOK'
  BY <1>4 DEF NewSession, Rset, Close, MaildropTypeOK
<1>5. ASSUME NEW s \in Sessions, NEW u \in Users, NEW p \in Passwords, Login(s, u, p)
      PROVE  MaildropTypeOK'
  <2>1. deleted[s] = {}
    BY <1>5 DEF Login, MaildropInv, SessionOK
  <2> QED
    BY <1>5, <2>1 DEF Login, MaildropTypeOK
<1>6. ASSUME NEW s \in Sessions, ListAll(s)
      PROVE  MaildropTypeOK'
  <2>1. numbers(s) \subseteq 1..Len(msgs[s])
    BY DEF numbers
  <2> QED
    BY <1>6, <2>1, ShowTyped DEF ListAll, MaildropTypeOK
<1>7. ASSUME NEW s \in Sessions, NEW n \in 1..MaxMessages, Query(s, n)
      PROVE  MaildropTypeOK'
  <2>1. {n} \subseteq 1..Len(msgs[s])
    BY <1>7 DEF Query, numbers
  <2> QED
    BY <1>7, <2>1, ShowTyped DEF Query, MaildropTypeOK
<1>8. ASSUME NEW s \in Sessions, NEW n \in 1..MaxMessages, Dele(s, n)
      PROVE  MaildropTypeOK'
  BY <1>8 DEF Dele, numbers, MaildropTypeOK
<1>9. ASSUME NEW s \in Sessions, Quit(s)
      PROVE  MaildropTypeOK'
  <2> DEFINE u == username[s]
             left == expunge(u, removals(s))
  <2>1. u \in Users
    BY DEF MaildropTypeOK
  <2>2. left \in Seq(1..arrived) /\ inOrder(left)
    BY <2>1, ExpungeKeeps
  <2>3. ToSet(messages[u]) \subseteq 1..arrived
    BY <2>1, Elements DEF MaildropTypeOK
  <2> HIDE DEF left
  <2> QED
    BY <1>9, <2>1, <2>2, <2>3 DEF Quit, left, MaildropTypeOK
<1> QED
  BY <1>1, <1>2, <1>3, <1>4, <1>5, <1>6, <1>7, <1>8, <1>9 DEF Next, SessionStep

\* Every step keeps what a session's own state says.
LEMMA SessionKept ==
    ASSUME MaildropInv, [Next]_mvars, NEW t \in Sessions
    PROVE  SessionOK(t)'
<1> USE DEF storeVars, sessionVars, historyVars
<1>0. MaildropTypeOK /\ SessionOK(t) /\ NoAccount \notin Passwords
  BY MaildropAssumption DEF MaildropInv
<1>1. CASE UNCHANGED mvars
  BY <1>0, <1>1 DEF mvars, SessionOK
<1>2. ASSUME NEW u \in Users, AddMessage(u)
      PROVE  SessionOK(t)'
  BY <1>0, <1>2 DEF AddMessage, SessionOK
<1>3. ASSUME NEW u \in Users, NEW p \in Passwords, AddUser(u, p)
      PROVE  SessionOK(t)'
  BY <1>0, <1>3 DEF AddUser, SessionOK, MaildropTypeOK
<1>4. ASSUME NEW s \in Sessions, NewSession(s) \/ Rset(s) \/ Close(s)
      PROVE  SessionOK(t)'
  BY <1>0, <1>4 DEF NewSession, Rset, Close, SessionOK, MaildropTypeOK
<1>5. ASSUME NEW s \in Sessions, NEW u \in Users, NEW p \in Passwords, Login(s, u, p)
      PROVE  SessionOK(t)'
  BY <1>0, <1>5 DEF Login, authenticate, SessionOK, MaildropTypeOK
<1>6. ASSUME NEW s \in Sessions, NEW ns \in SUBSET (1..Len(msgs[s])), Show(s, ns),
             phase[s] = "trans", UNCHANGED <<storeVars, sessionVars, expunged, wiped, stale>>
      PROVE  SessionOK(t)'
  <2>1. \A x \in shown'[t] : x[1] \in 1..Len(msgs[t]) /\ x[2] = msgs[t][x[1]]
    BY <1>0, <1>6, ShowTyped DEF SessionOK
  <2>2. phase[t] \in {"none", "auth"} => shown'[t] = {}
    BY <1>0, <1>6, ShowTyped DEF SessionOK
  <2> QED
    BY <1>0, <1>6, <2>1, <2>2 DEF SessionOK
<1>7. ASSUME NEW s \in Sessions, ListAll(s)
      PROVE  SessionOK(t)'
  BY <1>6, <1>7 DEF ListAll, numbers
<1>8. ASSUME NEW s \in Sessions, NEW n \in 1..MaxMessages, Query(s, n)
      PROVE  SessionOK(t)'
  BY <1>6, <1>8 DEF Query, numbers
<1>9. ASSUME NEW s \in Sessions, NEW n \in 1..MaxMessages, Dele(s, n)
      PROVE  SessionOK(t)'
  BY <1>0, <1>9 DEF Dele, SessionOK, MaildropTypeOK
<1>10. ASSUME NEW s \in Sessions, Quit(s)
       PROVE  SessionOK(t)'
  BY <1>0, <1>10 DEF Quit, SessionOK, MaildropTypeOK
<1> QED
  BY <1>1, <1>2, <1>3, <1>4, <1>5, <1>7, <1>8, <1>9, <1>10 DEF Next, SessionStep

\* What a step does to the maildrops and to the sets that account for messages:
\* an arrival, a replaced account, a Quit, or nothing.
Arrival(u) ==
    /\ arrived' = arrived + 1 /\ UNCHANGED <<expunged, wiped>>
    /\ ToSet(messages'[u]) = ToSet(messages[u]) \cup {arrived + 1}
    /\ \A v \in Users \ {u} : messages'[v] = messages[v]

Replacement(u) ==
    /\ UNCHANGED <<arrived, expunged>>
    /\ wiped' = wiped \cup ToSet(messages[u])
    /\ ToSet(messages'[u]) = {}
    /\ \A v \in Users \ {u} : messages'[v] = messages[v]

Removal(s) ==
    /\ UNCHANGED <<arrived, wiped>>
    /\ expunged[s] = {}
    /\ expunged'[s] = ToSet(messages[username[s]]) \cap removals(s)
    /\ \A t \in Sessions \ {s} : expunged'[t] = expunged[t]
    /\ ToSet(messages'[username[s]]) = ToSet(messages[username[s]]) \ removals(s)
    /\ \A v \in Users \ {username[s]} : messages'[v] = messages[v]

\* AddMessage is an arrival.
LEMMA Arrivals ==
    ASSUME MaildropTypeOK, NEW u \in Users, AddMessage(u)
    PROVE  Arrival(u)
<1> USE DEF storeVars, sessionVars, historyVars
<1>1. messages[u] \in Seq(1..arrived) /\ arrived \in Nat
  BY MaildropAssumption DEF MaildropTypeOK
<1>2. messages'[u] = Append(messages[u], arrived + 1)
  BY DEF AddMessage, MaildropTypeOK
<1> DEFINE l == messages[u]
           k == messages'[u]
<1>3. l \in Seq(Nat) /\ k = Append(l, arrived + 1) /\ arrived + 1 \in Nat
  BY <1>1, <1>2
<1> HIDE DEF l, k
<1>4. /\ DOMAIN k = 1..(Len(l) + 1) /\ DOMAIN l = 1..Len(l) /\ Len(l) \in Nat
      /\ k[Len(l) + 1] = arrived + 1
      /\ \A i \in 1..Len(l) : k[i] = l[i]
  BY <1>3
<1>5. 1..(Len(l) + 1) = (1..Len(l)) \cup {Len(l) + 1}
  BY <1>4
<1>6. ToSet(k) = ToSet(l) \cup {arrived + 1}
  BY <1>4, <1>5 DEF ToSet
<1> QED
  BY <1>6 DEF AddMessage, Arrival, MaildropTypeOK, k, l

\* AddUser is a replacement, of nothing when the user is new.
LEMMA Replacements ==
    ASSUME MaildropTypeOK, NEW u \in Users, NEW p \in Passwords, AddUser(u, p)
    PROVE  Replacement(u)
<1> USE DEF storeVars, sessionVars, historyVars
<1>1. ToSet(<< >>) = {}
  BY DEF ToSet
<1>2. messages'[u] = << >> /\ \A v \in Users \ {u} : messages'[v] = messages[v]
  BY DEF AddUser, MaildropTypeOK
<1> QED
  BY <1>1, <1>2 DEF AddUser, Replacement

\* Quit is a removal: a session in its transaction has an account to remove from.
LEMMA Removals ==
    ASSUME MaildropInv, NEW s \in Sessions, Quit(s)
    PROVE  Removal(s)
<1> USE DEF storeVars, sessionVars, historyVars
<1> DEFINE u == username[s]
           left == expunge(u, removals(s))
<1>1. /\ MaildropTypeOK /\ u \in Users /\ expunged[s] = {}
      /\ password[u] # NoAccount
  BY DEF MaildropInv, MaildropTypeOK, SessionOK, Quit
<1>2. ToSet(left) = ToSet(messages[u]) \ removals(s)
  BY <1>1, ExpungeKeeps
<1> HIDE DEF left
<1>3. messages' = [messages EXCEPT ![u] = left]
  BY DEF Quit, left
<1>4. messages'[u] = left /\ \A v \in Users \ {u} : messages'[v] = messages[v]
  BY <1>1, <1>3 DEF MaildropTypeOK
<1>5. expunged' = [expunged EXCEPT ![s] = ToSet(messages[u]) \ ToSet(messages'[u])]
  BY DEF Quit
<1>6. /\ expunged'[s] = ToSet(messages[u]) \ ToSet(left)
      /\ \A t \in Sessions \ {s} : expunged'[t] = expunged[t]
  BY <1>1, <1>4, <1>5 DEF MaildropTypeOK
<1>7. UNCHANGED <<arrived, wiped>>
  BY DEF Quit
<1> QED
  BY <1>1, <1>2, <1>4, <1>6, <1>7 DEF Removal

\* No other step touches a maildrop or the accounts of it.
LEMMA MessageSteps ==
    ASSUME MaildropInv, [Next]_mvars
    PROVE  \/ \E u \in Users : Arrival(u) \/ Replacement(u)
           \/ \E s \in Sessions : Removal(s)
           \/ UNCHANGED <<messages, arrived, expunged, wiped>>
<1> USE DEF storeVars, sessionVars, historyVars
<1>0. MaildropTypeOK
  BY DEF MaildropInv
<1>1. CASE UNCHANGED mvars
  BY <1>1 DEF mvars
<1>2. ASSUME NEW u \in Users, AddMessage(u)
      PROVE  Arrival(u)
  BY <1>0, <1>2, Arrivals
<1>3. ASSUME NEW u \in Users, NEW p \in Passwords, AddUser(u, p)
      PROVE  Replacement(u)
  BY <1>0, <1>3, Replacements
<1>4. ASSUME NEW s \in Sessions, Quit(s)
      PROVE  Removal(s)
  BY <1>4, Removals
<1>5. ASSUME NEW s \in Sessions, NewSession(s) \/ Rset(s) \/ Close(s) \/ ListAll(s)
      PROVE  UNCHANGED <<messages, arrived, expunged, wiped>>
  BY <1>5 DEF NewSession, Rset, Close, ListAll
<1>6. ASSUME NEW s \in Sessions, NEW u \in Users, NEW p \in Passwords, Login(s, u, p)
      PROVE  UNCHANGED <<messages, arrived, expunged, wiped>>
  BY <1>6 DEF Login
<1>7. ASSUME NEW s \in Sessions, NEW n \in 1..MaxMessages, Query(s, n) \/ Dele(s, n)
      PROVE  UNCHANGED <<messages, arrived, expunged, wiped>>
  BY <1>7 DEF Query, Dele
<1> QED
  BY <1>1, <1>2, <1>3, <1>4, <1>5, <1>6, <1>7 DEF Next, SessionStep

\* No message gets lost, and none gets into a second place.
LEMMA PlacesKept ==
    ASSUME MaildropInv, [Next]_mvars
    PROVE  Somewhere' /\ Apart'
<1>1. /\ Somewhere /\ Apart /\ arrived \in Nat
      /\ \A u \in Users : ToSet(messages[u]) \subseteq 1..arrived
      /\ \A s \in Sessions : expunged[s] \subseteq 1..arrived
      /\ wiped \subseteq 1..arrived
  BY Elements, MaildropAssumption DEF MaildropInv, MaildropTypeOK
<1>2. ASSUME NEW u \in Users, Arrival(u)
      PROVE  Somewhere' /\ Apart'
  <2>1. Somewhere'
    BY <1>1, <1>2 DEF Arrival, Somewhere
  <2>2. Apart'
    BY <1>1, <1>2 DEF Arrival, Apart
  <2> QED
    BY <2>1, <2>2
<1>3. ASSUME NEW u \in Users, Replacement(u)
      PROVE  Somewhere' /\ Apart'
  <2>1. Somewhere'
    BY <1>1, <1>3 DEF Replacement, Somewhere
  <2>2. Apart'
    BY <1>1, <1>3 DEF Replacement, Apart
  <2> QED
    BY <2>1, <2>2
<1>4. ASSUME NEW s \in Sessions, Removal(s)
      PROVE  Somewhere' /\ Apart'
  <2>0. username[s] \in Users
    BY DEF MaildropInv, MaildropTypeOK
  <2>1. Somewhere'
    BY <1>1, <1>4, <2>0 DEF Removal, Somewhere
  <2>2. Apart'
    BY <1>1, <1>4, <2>0 DEF Removal, Apart
  <2> QED
    BY <2>1, <2>2
<1>5. CASE UNCHANGED <<messages, arrived, expunged, wiped>>
  BY <1>1, <1>5 DEF Somewhere, Apart
<1> QED
  BY <1>2, <1>3, <1>4, <1>5, MessageSteps

\* A session that outlived its account stays apart from the new one: what arrives
\* is new, and what others remove only makes the maildrop smaller.
LEMMA StaleKept ==
    ASSUME MaildropInv, [Next]_mvars, NEW t \in Sessions
    PROVE  StaleOK(t)'
<1> USE DEF storeVars, sessionVars, historyVars
<1>1. /\ MaildropTypeOK /\ SessionOK(t) /\ StaleOK(t) /\ arrived \in Nat
      /\ username[t] \in Users
      /\ \A u \in Users : ToSet(messages[u]) \subseteq 1..arrived
      /\ ToSet(msgs[t]) \subseteq 1..arrived
  BY Elements, MaildropAssumption DEF MaildropInv, MaildropTypeOK
<1>2. ASSUME UNCHANGED <<phase, username, msgs, expunged, stale>>,
             ToSet(messages'[username[t]]) \subseteq
                 ToSet(messages[username[t]]) \cup {arrived + 1}
      PROVE  StaleOK(t)'
  BY <1>1, <1>2 DEF StaleOK
<1>3. CASE UNCHANGED mvars
  BY <1>2, <1>3 DEF mvars
<1>4. ASSUME NEW u \in Users, AddMessage(u)
      PROVE  StaleOK(t)'
  <2>1. Arrival(u)
    BY <1>1, <1>4, Arrivals
  <2>2. ToSet(messages'[username[t]]) \subseteq
            ToSet(messages[username[t]]) \cup {arrived + 1}
    BY <1>1, <2>1 DEF Arrival
  <2> QED
    BY <1>2, <1>4, <2>2 DEF AddMessage
<1>5. ASSUME NEW u \in Users, NEW p \in Passwords, AddUser(u, p)
      PROVE  StaleOK(t)'
  <2>1. Replacement(u)
    BY <1>1, <1>5, Replacements
  <2> QED
    BY <1>1, <1>5, <2>1 DEF Replacement, AddUser, StaleOK, SessionOK
<1>6. ASSUME NEW s \in Sessions, NewSession(s) \/ Rset(s) \/ Close(s) \/ ListAll(s)
      PROVE  StaleOK(t)'
  BY <1>1, <1>6 DEF NewSession, Rset, Close, ListAll, StaleOK, MaildropTypeOK
<1>7. ASSUME NEW s \in Sessions, NEW u \in Users, NEW p \in Passwords, Login(s, u, p)
      PROVE  StaleOK(t)'
  BY <1>1, <1>7 DEF Login, StaleOK, SessionOK, MaildropTypeOK
<1>8. ASSUME NEW s \in Sessions, NEW n \in 1..MaxMessages, Query(s, n) \/ Dele(s, n)
      PROVE  StaleOK(t)'
  BY <1>1, <1>8 DEF Query, Dele, StaleOK
<1>9. ASSUME NEW s \in Sessions, Quit(s)
      PROVE  StaleOK(t)'
  <2>1. Removal(s) /\ username[s] \in Users
    BY <1>9, <1>1, Removals DEF MaildropTypeOK
  <2>2. CASE s = t
    <3>1. removals(t) \subseteq ToSet(msgs[t])
      BY <1>1 DEF removals, ToSet, MaildropTypeOK
    <3>2. phase[t] = "trans" /\ phase'[t] = "quit" /\ stale' = stale
      BY <1>9, <2>2, <1>1 DEF Quit, MaildropTypeOK
    <3> QED
      BY <1>1, <2>1, <2>2, <3>1, <3>2 DEF Removal, StaleOK
  <2>3. CASE s # t
    <3>1. /\ phase'[t] = phase[t] /\ stale' = stale
          /\ msgs' = msgs /\ username' = username
      BY <1>9, <2>3, <1>1 DEF Quit, MaildropTypeOK
    <3>2. ToSet(messages'[username[t]]) \subseteq ToSet(messages[username[t]])
      BY <1>1, <2>1 DEF Removal
    <3> QED
      BY <1>1, <2>1, <2>3, <3>1, <3>2 DEF Removal, StaleOK
  <2> QED
    BY <2>2, <2>3
<1> QED
  BY <1>3, <1>4, <1>5, <1>6, <1>7, <1>8, <1>9 DEF Next, SessionStep

\* The invariant holds at first.
LEMMA InvInit == Init => MaildropInv
<1> SUFFICES ASSUME Init
             PROVE  MaildropInv
  OBVIOUS
<1>1. MaildropTypeOK
  BY TypeInit
<1>2. ToSet(<< >>) = {}
  BY DEF ToSet
<1>3. ASSUME NEW s \in Sessions
      PROVE  SessionOK(s) /\ StaleOK(s)
  BY DEF Init, SessionOK, StaleOK
<1>4. Somewhere /\ Apart
  BY <1>2 DEF Init, Somewhere, Apart
<1> QED
  BY <1>1, <1>3, <1>4 DEF MaildropInv

\* Every step keeps the invariant.
LEMMA InvStep == MaildropInv /\ [Next]_mvars => MaildropInv'
<1> SUFFICES ASSUME MaildropInv, [Next]_mvars
             PROVE  MaildropInv'
  OBVIOUS
<1>1. MaildropTypeOK'
  BY TypeStep
<1>2. \A s \in Sessions : SessionOK(s)' /\ StaleOK(s)'
  BY SessionKept, StaleKept
<1>3. Somewhere' /\ Apart'
  BY PlacesKept
<1> QED
  BY <1>1, <1>2, <1>3 DEF MaildropInv

\* The inductive invariant of the store and its sessions.
THEOREM Invariance == Spec => []MaildropInv
  BY InvInit, InvStep, PTL DEF Spec

\* The store and its sessions are well-typed in every reachable state, whatever the
\* number of users, sessions and messages.
THEOREM MaildropTyped == Spec => []MaildropTypeOK
<1>1. MaildropInv => MaildropTypeOK
  BY DEF MaildropInv
<1> QED
  BY <1>1, Invariance, PTL

\* No client is shown two messages under one number, for every number of sessions.
THEOREM NumbersStable == Spec => []NumbersKeepMeaning
<1>1. MaildropInv => NumbersKeepMeaning
  BY DEF MaildropInv, SessionOK, NumbersKeepMeaning
<1> QED
  BY <1>1, Invariance, PTL

\* No message is lost or counted twice.
THEOREM MessagesAccounted == Spec => []Accounted
<1>1. ASSUME MaildropInv, NEW m \in 1..arrived
      PROVE  Cardinality(inLists(m)) + Cardinality(countedBy(m))
                 + (IF m \in wiped THEN 1 ELSE 0) = 1
  <2>1. /\ MaildropTypeOK /\ Somewhere /\ Apart /\ arrived \in Nat
        /\ arrived <= MaxMessages /\ MaxMessages \in Nat
    BY <1>1, MaildropAssumption DEF MaildropInv, MaildropTypeOK
  <2>2. ASSUME NEW u \in Users
        PROVE  /\ messages[u] \in Seq(1..arrived)
               /\ inOrder(messages[u])
               /\ m \in ToSet(messages[u]) <=> \E i \in 1..Len(messages[u]) : messages[u][i] = m
    BY <2>1, Elements DEF MaildropTypeOK
  <2>3. (\A u \in Users : m \notin ToSet(messages[u])) => inLists(m) = {}
    BY <2>2 DEF inLists
  <2>4. ASSUME NEW u \in Users, m \in ToSet(messages[u])
        PROVE  \E x : inLists(m) = {x}
    <3>1. PICK i \in 1..Len(messages[u]) : messages[u][i] = m
      BY <2>2, <2>4
    <3>2. i \in 1..MaxMessages
      <4>1. i <= messages[u][i]
        BY <2>1, <2>2, PlacesBounded
      <4> QED
        BY <2>1, <3>1, <4>1
    <3>3. <<u, i>> \in inLists(m)
      BY <2>2, <3>1, <3>2 DEF inLists
    <3>4. ASSUME NEW p \in inLists(m)
          PROVE  p = <<u, i>>
      <4>1. /\ p \in Users \X (1..MaxMessages)
            /\ p[2] \in 1..Len(messages[p[1]]) /\ messages[p[1]][p[2]] = m
        BY <2>2 DEF inLists
      <4>2. m \in ToSet(messages[p[1]])
        BY <2>2, <4>1
      <4>3. p[1] = u
        BY <2>1, <2>4, <4>1, <4>2 DEF Apart
      <4>4. p[2] = i
        BY <2>2, <3>1, <4>1, <4>3 DEF inOrder
      <4> QED
        BY <4>1, <4>3, <4>4
    <3> QED
      BY <3>3, <3>4
  <2>5. (\A s \in Sessions : m \notin expunged[s]) => countedBy(m) = {}
    BY DEF countedBy
  <2>6. ASSUME NEW s \in Sessions, m \in expunged[s]
        PROVE  countedBy(m) = {s}
    BY <2>1, <2>6 DEF countedBy, Apart
  <2>7. Cardinality({}) = 0 /\ \A x : Cardinality({x}) = 1
    BY FS_EmptySet, FS_Singleton
  <2>8. CASE \E u \in Users : m \in ToSet(messages[u])
    <3>1. \E x : inLists(m) = {x}
      BY <2>4, <2>8
    <3>2. countedBy(m) = {} /\ m \notin wiped
      BY <2>1, <2>5, <2>8 DEF Apart
    <3>3. Cardinality(inLists(m)) = 1 /\ Cardinality(countedBy(m)) = 0
      BY <2>7, <3>1, <3>2
    <3> QED
      BY <3>2, <3>3
  <2>9. CASE \E s \in Sessions : m \in expunged[s]
    <3>1. \E x : countedBy(m) = {x}
      BY <2>6, <2>9
    <3>2. inLists(m) = {} /\ m \notin wiped
      BY <2>1, <2>3, <2>9 DEF Apart
    <3>3. Cardinality(inLists(m)) = 0 /\ Cardinality(countedBy(m)) = 1
      BY <2>7, <3>1, <3>2
    <3> QED
      BY <3>2, <3>3
  <2>10. CASE m \in wiped
    <3>1. inLists(m) = {} /\ countedBy(m) = {}
      BY <2>1, <2>3, <2>5, <2>10 DEF Apart
    <3>2. Cardinality(inLists(m)) = 0 /\ Cardinality(countedBy(m)) = 0
      BY <2>7, <3>1
    <3> QED
      BY <2>10, <3>2
  <2> QED
    BY <2>1, <2>8, <2>9, <2>10 DEF Somewhere
<1>2. ASSUME MaildropInv, NEW s \in stale
      PROVE  expunged[s] = {}
  BY <1>2 DEF MaildropInv, MaildropTypeOK, StaleOK
<1>3. MaildropInv => Accounted
  BY <1>1, <1>2 DEF Accounted
<1> QED
  BY <1>3, Invariance, PTL

------------------------------------------------------------------------------
(* The refinement of Mailbox.                                                *)

\* The abstract state, as Abstract maps it.
box    == [u \in Users |-> ToSet(messages[u])]
stage  == [s \in Sessions |-> stageOf(s)]
view   == [s \in Sessions |-> ToSet(msgs[s])]
marked == [s \in Sessions |-> removals(s)]

\* The first state is a first state of Mailbox.
LEMMA AbstractInit == Init => Abstract!MailboxInit
<1> SUFFICES ASSUME Init
             PROVE  Abstract!MailboxInit
  OBVIOUS
<1>1. MaildropTypeOK
  BY TypeInit
<1>2. ToSet(<< >>) = {}
  BY DEF ToSet
<1>3. box = [u \in Users |-> {}] /\ view = [s \in Sessions |-> {}]
  BY <1>2 DEF Init, box, view
<1>4. stage = [s \in Sessions |-> "out"]
  BY DEF Init, stage, stageOf
<1>5. marked = [s \in Sessions |-> {}]
  BY DEF Init, marked, removals
<1>6. arrived = 0 /\ username \in [Sessions -> Users]
  BY <1>1 DEF Init, MaildropTypeOK
<1> QED
  BY <1>3, <1>4, <1>5, <1>6 DEF Abstract!MailboxInit, box, view, stage, marked

\* A step that leaves a session's snapshot and marks alone leaves its abstract
\* state alone but for the stage.
LEMMA MarkedSame ==
    ASSUME UNCHANGED <<msgs, deleted>>
    PROVE  marked' = marked /\ view' = view
  BY DEF marked, view, removals

\* Nor does the stage change without the phase.
LEMMA StageSame ==
    ASSUME UNCHANGED phase
    PROVE  stage' = stage
  BY DEF stage, stageOf

\* Nor the maildrops without the lists.
LEMMA BoxSame ==
    ASSUME UNCHANGED messages
    PROVE  box' = box
  BY DEF box

\* A new phase of one session is a new stage of it.
LEMMA StageMoves ==
    ASSUME MaildropTypeOK, NEW s \in Sessions, NEW p, phase' = [phase EXCEPT ![s] = p]
    PROVE  \A st : stageOf(s)' = st => stage' = [stage EXCEPT ![s] = st]
  BY DEF stage, stageOf, MaildropTypeOK

\* Every step is a step of Mailbox, or leaves its state alone.
LEMMA AbstractStep ==
    ASSUME MaildropInv, [Next]_mvars
    PROVE  [Abstract!MailboxNext]_(Abstract!mbvars)
<1> USE DEF storeVars, sessionVars, historyVars
<1>0. MaildropTypeOK
  BY DEF MaildropInv
<1>1. ASSUME UNCHANGED <<box, arrived, stage, username, view, marked>>
      PROVE  UNCHANGED Abstract!mbvars
  BY <1>1 DEF Abstract!mbvars, box, stage, view, marked
<1>2. CASE UNCHANGED mvars
  BY <1>1, <1>2, MarkedSame, StageSame, BoxSame DEF mvars
<1>3. ASSUME NEW u \in Users, AddMessage(u)
      PROVE  Abstract!Deliver
  <2>1. Arrival(u)
    BY <1>0, <1>3, Arrivals
  <2>2. box' = [box EXCEPT ![u] = @ \cup {arrived + 1}]
    BY <2>1 DEF Arrival, box
  <2>3. UNCHANGED <<stage, username, view, marked>>
    BY <1>3, MarkedSame, StageSame DEF AddMessage
  <2> QED
    BY <2>1, <2>2, <2>3 DEF Arrival, Abstract!Deliver, box, stage, view, marked
<1>4. ASSUME NEW u \in Users, NEW p \in Passwords, AddUser(u, p)
      PROVE  Abstract!Wipe
  <2>1. Replacement(u)
    BY <1>0, <1>4, Replacements
  <2>2. box' = [box EXCEPT ![u] = {}]
    BY <2>1 DEF Replacement, box
  <2>3. UNCHANGED <<stage, username, view, marked>>
    BY <1>4, MarkedSame, StageSame DEF AddUser
  <2> QED
    BY <2>1, <2>2, <2>3 DEF Replacement, Abstract!Wipe, box, stage, view, marked
<1>5. ASSUME NEW s \in Sessions, NewSession(s)
      PROVE  UNCHANGED Abstract!mbvars
  <2>1. stage' = stage
    BY <1>0, <1>5 DEF NewSession, stage, stageOf, MaildropTypeOK
  <2> QED
    BY <1>1, <1>5, <2>1, MarkedSame, BoxSame DEF NewSession
<1>6. ASSUME NEW s \in Sessions, NEW u \in Users, NEW p \in Passwords, Login(s, u, p)
      PROVE  Abstract!Enter(s)
  <2>1. stage[s] = "out"
    BY <1>6 DEF Login, stage, stageOf
  <2>2. stage' = [stage EXCEPT ![s] = "in"]
    <3>1. stageOf(s)' = "in"
      BY <1>0, <1>6 DEF Login, stageOf, MaildropTypeOK
    <3> QED
      BY <1>0, <1>6, <3>1, StageMoves DEF Login
  <2>3. view' = [view EXCEPT ![s] = box[u]]
    BY <1>0, <1>6 DEF Login, view, box, MaildropTypeOK
  <2>4. marked' = marked
    <3>1. removals(s) = {} /\ removals(s)' = {}
      BY <1>6 DEF Login, removals, MaildropInv, SessionOK
    <3>2. \A t \in Sessions \ {s} : removals(t)' = removals(t)
      BY <1>0, <1>6 DEF Login, removals, MaildropTypeOK
    <3> QED
      BY <3>1, <3>2 DEF marked
  <2>5. box' = box /\ arrived' = arrived /\ username' = [username EXCEPT ![s] = u]
    BY <1>6, BoxSame DEF Login
  <2> QED
    BY <2>1, <2>2, <2>3, <2>4, <2>5 DEF Abstract!Enter, box, stage, view, marked
<1>7. ASSUME NEW s \in Sessions, NEW n \in 1..MaxMessages, Dele(s, n)
      PROVE  Abstract!Mark(s)
  <2> DEFINE m == msgs[s][n]
  <2>1. stage[s] = "in" /\ n \in 1..Len(msgs[s]) /\ n \notin deleted[s]
    BY <1>7 DEF Dele, stage, stageOf, numbers
  <2>2. m \in view[s]
    BY <1>0, <2>1 DEF view, ToSet, MaildropTypeOK
  <2>3. m \notin marked[s]
    BY <1>0, <2>1 DEF marked, removals, MaildropTypeOK, inOrder
  <2>4. marked' = [marked EXCEPT ![s] = @ \cup {m}]
    <3>1. removals(s)' = removals(s) \cup {m}
      BY <1>0, <1>7, <2>1 DEF Dele, removals, MaildropTypeOK
    <3>2. \A t \in Sessions \ {s} : removals(t)' = removals(t)
      BY <1>0, <1>7 DEF Dele, removals, MaildropTypeOK
    <3> HIDE DEF m
    <3> QED
      BY <3>1, <3>2 DEF marked
  <2>5. box' = box /\ stage' = stage /\ arrived' = arrived /\ username' = username
    BY <1>7, BoxSame, StageSame DEF Dele
  <2>6. view' = view
    BY <1>7 DEF Dele, view
  <2> HIDE DEF m
  <2> QED
    BY <2>1, <2>2, <2>3, <2>4, <2>5, <2>6 DEF Abstract!Mark, box, stage, view, marked
<1>8. ASSUME NEW s \in Sessions, Rset(s)
      PROVE  Abstract!Unmark(s)
  <2>1. stage[s] = "in"
    BY <1>8 DEF Rset, stage, stageOf
  <2>2. marked' = [marked EXCEPT ![s] = {}]
    <3>1. removals(s)' = {}
      BY <1>0, <1>8 DEF Rset, removals, MaildropTypeOK
    <3>2. \A t \in Sessions \ {s} : removals(t)' = removals(t)
      BY <1>0, <1>8 DEF Rset, removals, MaildropTypeOK
    <3> QED
      BY <3>1, <3>2 DEF marked
  <2>3. box' = box /\ stage' = stage /\ arrived' = arrived /\ username' = username
    BY <1>8, BoxSame, StageSame DEF Rset
  <2>4. view' = view
    BY <1>8 DEF Rset, view
  <2> QED
    BY <2>1, <2>2, <2>3, <2>4 DEF Abstract!Unmark, box, stage, view, marked
<1>9. ASSUME NEW s \in Sessions, Quit(s)
      PROVE  Abstract!Commit(s)
  <2>1. stage[s] = "in" /\ username[s] \in Users
    BY <1>0, <1>9 DEF Quit, stage, stageOf, MaildropTypeOK
  <2>2. stage' = [stage EXCEPT ![s] = "committed"]
    <3>1. stageOf(s)' = "committed"
      BY <1>0, <1>9 DEF Quit, stageOf, MaildropTypeOK
    <3> QED
      BY <1>0, <1>9, <3>1, StageMoves DEF Quit
  <2>3. box' = [box EXCEPT ![username[s]] = @ \ marked[s]]
    <3>1. Removal(s)
      BY <1>9, Removals
    <3>2. marked[s] = removals(s)
      BY DEF marked
    <3> QED
      BY <2>1, <3>1, <3>2 DEF Removal, box
  <2>4. UNCHANGED <<arrived, username, view, marked>>
    BY <1>9, MarkedSame DEF Quit
  <2> QED
    BY <2>1, <2>2, <2>3, <2>4 DEF Abstract!Commit, box, stage, view, marked
<1>10. ASSUME NEW s \in Sessions, Close(s)
       PROVE  Abstract!Leave(s)
  <2>1. stage' = [stage EXCEPT ![s] = "gone"]
    <3>1. stageOf(s)' = "gone"
      BY <1>0, <1>10 DEF Close, stageOf, MaildropTypeOK
    <3> QED
      BY <1>0, <1>10, <3>1, StageMoves DEF Close
  <2>2. UNCHANGED <<box, arrived, username, view, marked>>
    BY <1>10, MarkedSame, BoxSame DEF Close
  <2> QED
    BY <2>1, <2>2 DEF Abstract!Leave, box, stage, view, marked
<1>11. ASSUME NEW s \in Sessions,
              ListAll(s) \/ \E n \in 1..MaxMessages : Query(s, n)
       PROVE  UNCHANGED Abstract!mbvars
  BY <1>1, <1>11, MarkedSame, StageSame, BoxSame DEF ListAll, Query
<1> QED
  BY <1>2, <1>3, <1>4, <1>5, <1>6, <1>7, <1>8, <1>9, <1>10, <1>11
     DEF Next, SessionStep, Abstract!MailboxNext

\* The store implements Mailbox, for every number of users, sessions and messages:
\* only a Quit takes messages out, exactly the marked ones, and none comes back.
THEOREM MailboxImplemented == Spec => ImplementsMailbox
<1>1. Init => Abstract!MailboxInit
  BY AbstractInit
<1>2. MaildropInv /\ [Next]_mvars => [Abstract!MailboxNext]_(Abstract!mbvars)
  BY AbstractStep
<1> QED
  BY <1>1, <1>2, Invariance, PTL DEF Spec, ImplementsMailbox, Abstract!MailboxSpec
=============================================================================
