----------------------------- MODULE Induction -----------------------------
(***************************************************************************)
(* Induction over the naturals for sets instead of predicates, and what a  *)
(* function defined by recursion over an interval is, for the proofs about *)
(* loops over sequences.                                                   *)
(***************************************************************************)
EXTENDS Integers, WellFoundedInduction, TLAPS

\* A set of naturals that is not empty has a smallest element.
LEMMA SmallestElement ==
    ASSUME NEW T, T \subseteq Nat, T # {}
    PROVE  \E x \in T : \A y \in T : x <= y
<1> DEFINE R == OpToRel(<, Nat)
<1>1. IsWellFoundedOn(R, Nat)
  BY NatLessThanWellFounded
<1>2. R = {ss \in Nat \X Nat : ss[1] < ss[2]}
  BY Zenon DEF OpToRel
<1> HIDE DEF R
<1>3. PICK x \in T : \A y \in T : <<y, x>> \notin R
  BY <1>1, WFMin
<1>4. ASSUME NEW y \in T
      PROVE  x <= y
  <2>1. x \in Nat /\ y \in Nat /\ <<y, x>> \in Nat \X Nat
    OBVIOUS
  <2>2. ~(<<y, x>>[1] < <<y, x>>[2])
    BY <1>2, <1>3, <2>1
  <2> QED
    BY <2>1, <2>2
<1> QED
  BY <1>4

\* Induction: a set that contains 0 and with every natural its successor.
LEMMA InductiveSet ==
    ASSUME NEW S, 0 \in S, \A n \in Nat : n \in S => n + 1 \in S
    PROVE  \A n \in Nat : n \in S
<1> DEFINE T == Nat \ S
<1> SUFFICES ASSUME T # {} PROVE FALSE
  OBVIOUS
<1>1. PICK x \in T : \A y \in T : x <= y
  <2>1. T \subseteq Nat
    OBVIOUS
  <2> HIDE DEF T
  <2> QED
    BY <2>1, SmallestElement
<1> QED
  BY <1>1

\* The turns 1..n of a loop, each a function of the value the turn before left, and
\* what f says of a loop from b: f[i] is the value after the turn i.
Steps(n, V) == [1..n -> [V -> V]]

Loop(f, n, V, b, step) ==
    /\ f \in [0..n -> V]
    /\ f[0] = b
    /\ \A i \in 1..n : f[i] = step[i][f[i - 1]]

\* Such a loop has a value after every turn.
LEMMA LoopFunction ==
    ASSUME NEW n \in Nat, NEW V, NEW b \in V, NEW step \in Steps(n, V)
    PROVE  \E f : Loop(f, n, V, b, step)
<1> USE DEF Steps
<1> DEFINE Is(f, k) == f = [i \in 0..k |-> IF i = 0 THEN b ELSE step[i][f[i - 1]]]
           S == {k \in Nat : k <= n => \E f \in [0..k -> V] : Is(f, k)}
<1>1. 0 \in S
  <2> DEFINE f == [i \in 0..0 |-> b]
  <2>1. f \in [0..0 -> V] /\ Is(f, 0)
    OBVIOUS
  <2> HIDE DEF f, Is
  <2> QED
    BY <2>1
<1>2. ASSUME NEW k \in Nat, k \in S
      PROVE  k + 1 \in S
  <2> SUFFICES ASSUME k + 1 <= n
               PROVE  \E f \in [0..(k + 1) -> V] : Is(f, k + 1)
    OBVIOUS
  <2>1. PICK f \in [0..k -> V] : Is(f, k)
    BY <1>2
  <2> DEFINE g == [i \in 0..(k + 1) |-> IF i <= k THEN f[i] ELSE step[k + 1][f[k]]]
  <2>2. \A i \in 0..k : g[i] = f[i] /\ f[i] \in V
    OBVIOUS
  <2>3. g[k + 1] = step[k + 1][f[k]]
    OBVIOUS
  <2>4. g[k + 1] \in V
    BY <2>3
  <2>5. g \in [0..(k + 1) -> V]
    BY <2>2, <2>4
  <2>6. ASSUME NEW i \in 0..(k + 1)
        PROVE  g[i] = IF i = 0 THEN b ELSE step[i][g[i - 1]]
    <3>1. CASE i = k + 1
      BY <3>1, <2>2, <2>3
    <3>2. CASE i \in 0..k
      <4>1. f[i] = IF i = 0 THEN b ELSE step[i][f[i - 1]]
        BY <3>2, <2>1
      <4> QED
        BY <3>2, <4>1, <2>2
    <3> QED
      BY <3>1, <3>2
  <2>7. Is(g, k + 1)
    BY <2>6
  <2> HIDE DEF g, Is
  <2> QED
    BY <2>5, <2>7
<1>3. n \in S
  <2> HIDE DEF S
  <2> QED
    BY <1>1, <1>2, InductiveSet
<1>4. PICK f \in [0..n -> V] : Is(f, n)
  BY <1>3
<1>5. \A i \in 0..n : f[i] = IF i = 0 THEN b ELSE step[i][f[i - 1]]
  <2> DEFINE Turn(i) == IF i = 0 THEN b ELSE step[i][f[i - 1]]
  <2>1. f = [i \in 0..n |-> Turn(i)]
    BY <1>4
  <2> HIDE DEF Turn
  <2>2. \A i \in 0..n : f[i] = Turn(i)
    BY <2>1
  <2> QED
    BY <2>2 DEF Turn
<1> HIDE DEF Is, S
<1>6. f[0] = b /\ \A i \in 1..n : f[i] = step[i][f[i - 1]]
  <2>1. 0 \in 0..n /\ \A i \in 1..n : i \in 0..n /\ i # 0
    OBVIOUS
  <2> QED
    BY <1>5, <2>1, Zenon
<1>7. Loop(f, n, V, b, step)
  BY <1>4, <1>6, Zenon DEF Loop
<1> QED
  BY <1>7

\* A function that takes the same turns has the same values.
LEMMA LoopIs ==
    ASSUME NEW n \in Nat, NEW V, NEW b \in V, NEW step \in Steps(n, V),
           NEW f, f = [i \in 0..n |-> f[i]], f[0] = b,
           \A i \in 1..n : f[i - 1] \in V => f[i] = step[i][f[i - 1]]
    PROVE  Loop(f, n, V, b, step)
<1> DEFINE S == {k \in Nat : k <= n => f[k] \in V}
<1>1. 0 \in S
  OBVIOUS
<1>2. ASSUME NEW k \in Nat, k \in S
      PROVE  k + 1 \in S
  <2> SUFFICES ASSUME k + 1 <= n PROVE f[k + 1] \in V
    OBVIOUS
  <2>1. k + 1 \in 1..n /\ (k + 1) - 1 = k /\ f[k] \in V
    BY <1>2
  <2>2. f[k + 1] = step[k + 1][f[k]]
    BY <2>1
  <2>3. step[k + 1] \in [V -> V]
    BY <2>1 DEF Steps
  <2> QED
    BY <2>1, <2>2, <2>3
<1>3. \A k \in Nat : k \in S
  <2> HIDE DEF S
  <2> QED
    BY <1>1, <1>2, InductiveSet
<1>4. \A k \in 0..n : f[k] \in V
  BY <1>3
<1>5. f \in [0..n -> V]
  <2>1. [i \in 0..n |-> f[i]] \in [0..n -> V]
    BY <1>4
  <2> QED
    BY <2>1, Zenon
<1>6. \A i \in 1..n : f[i] = step[i][f[i - 1]]
  <2> SUFFICES ASSUME NEW i \in 1..n PROVE f[i] = step[i][f[i - 1]]
    OBVIOUS
  <2>1. i - 1 \in 0..n
    OBVIOUS
  <2> QED
    BY <1>4, <2>1
<1> QED
  BY <1>5, <1>6 DEF Loop
=============================================================================
