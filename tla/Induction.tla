------------------------------- MODULE Induction -------------------------------
(***************************************************************************)
(* Induction over the natural numbers, stated about sets, and what it      *)
(* gives for functions that are defined by recursion.  The schemes of the  *)
(* library take an operator; these take the set of the numbers that have   *)
(* the property, and the step of a recursion as a function.                *)
(***************************************************************************)
EXTENDS Integers, WellFoundedInduction, TLAPS

\* A set of natural numbers that is not empty has a least member.
LEMMA Least ==
  ASSUME NEW T, T \subseteq Nat, T # {}
  PROVE  \E x \in T : \A y \in T : x <= y
<1>1. IsWellFoundedOn(OpToRel(<, Nat), Nat)
  BY NatLessThanWellFounded
<1>2. \E x \in T : \A y \in T : ~(<<y, x>> \in OpToRel(<, Nat))
  BY <1>1, WFMin
<1>3. \E x \in T : \A y \in T : ~(y < x)
  BY <1>2, Zenon DEF OpToRel
<1>4. PICK x \in T : \A y \in T : ~(y < x)
  BY <1>3
<1>5. \A y \in T : x <= y
  BY <1>4
<1> QED BY <1>5

\* A set that holds 0 and the successor of each number it holds has them all.
LEMMA Induct ==
  ASSUME NEW T, 0 \in T, \A n \in Nat : n \in T => n + 1 \in T
  PROVE  Nat \subseteq T
<1> SUFFICES ASSUME Nat \ T # {} PROVE FALSE
  OBVIOUS
<1>1. PICK x \in Nat \ T : \A y \in Nat \ T : x <= y
  BY Least
<1>2. x - 1 \in Nat /\ x - 1 \notin Nat \ T
  BY <1>1
<1> QED BY <1>1, <1>2

\* The same as far as a bound.
LEMMA InductUpTo ==
  ASSUME NEW n \in Nat, NEW T, 0 \in T, \A k \in 0 .. n - 1 : k \in T => k + 1 \in T
  PROVE  0 .. n \subseteq T
<1> DEFINE U == {k \in Nat : k <= n => k \in T}
<1>1. Nat \subseteq U
  <2>1. 0 \in U
    OBVIOUS
  <2>2. \A k \in Nat : k \in U => k + 1 \in U
    OBVIOUS
  <2> HIDE DEF U
  <2> QED BY <2>1, <2>2, Induct
<1> QED BY <1>1

-----------------------------------------------------------------------------
\* Recursion along 1 .. n: from a, each step is given its number and the
\* result before it.
IsRun(g, n, a, step) == g = [k \in 0 .. n |-> IF k = 0 THEN a ELSE step[k][g[k - 1]]]

LEMMA RunExists ==
  ASSUME NEW S, NEW a \in S, NEW n \in Nat, NEW step \in [1 .. n -> [S -> S]]
  PROVE  \E g \in [0 .. n -> S] : IsRun(g, n, a, step)
<1> DEFINE T == {m \in 0 .. n : \E g \in [0 .. m -> S] : IsRun(g, m, a, step)}
<1>1. 0 \in T
  <2>1. IsRun([k \in 0 .. 0 |-> a], 0, a, step)
    BY DEF IsRun
  <2> QED BY <2>1
<1>2. ASSUME NEW m \in 0 .. n - 1, m \in T
      PROVE  m + 1 \in T
  <2>1. PICK g \in [0 .. m -> S] : IsRun(g, m, a, step)
    BY <1>2
  <2> DEFINE h == [k \in 0 .. m + 1 |-> IF k <= m THEN g[k] ELSE step[m + 1][g[m]]]
  <2>2. h \in [0 .. m + 1 -> S]
    BY <2>1
  <2>3. \A k \in 0 .. m + 1 : h[k] = IF k = 0 THEN a ELSE step[k][h[k - 1]]
    <3>1. g[0] = a /\ \A k \in 1 .. m : g[k] = step[k][g[k - 1]]
      BY <2>1 DEF IsRun
    <3>2. \A k \in 0 .. m + 1 : k \in 0 .. m \/ k = m + 1
      OBVIOUS
    <3> QED BY <3>1, <3>2
  <2> HIDE DEF h
  <2>4. IsRun(h, m + 1, a, step)
    BY <2>2, <2>3 DEF IsRun
  <2> QED BY <2>2, <2>4
<1> HIDE DEF T
<1>3. 0 .. n \subseteq T
  BY <1>1, <1>2, InductUpTo
<1> USE DEF T
<1> QED BY <1>3

LEMMA RunIsUnique ==
  ASSUME NEW n \in Nat, NEW a, NEW step, NEW g, NEW h,
         IsRun(g, n, a, step), IsRun(h, n, a, step)
  PROVE  g = h
<1> DEFINE T == {k \in 0 .. n : g[k] = h[k]}
<1>1. 0 \in T
  BY DEF IsRun
<1>2. \A k \in 0 .. n - 1 : k \in T => k + 1 \in T
  BY DEF IsRun
<1> HIDE DEF T
<1>3. 0 .. n \subseteq T
  BY <1>1, <1>2, InductUpTo
<1>4. \A k \in 0 .. n : g[k] = h[k]
  BY <1>3 DEF T
<1> QED BY <1>4 DEF IsRun

\* Recursion from n down to 0, in strides: next gives the number, further up,
\* whose result the step of a number is applied to.
IsDescent(g, n, a, next, step) ==
  g = [i \in 0 .. n |-> IF i = n THEN a ELSE step[i][g[next[i]]]]

LEMMA DescentExists ==
  ASSUME NEW S, NEW a \in S, NEW n \in Nat, NEW next \in [0 .. n - 1 -> 0 .. n],
         \A i \in 0 .. n - 1 : next[i] > i, NEW step \in [0 .. n - 1 -> [S -> S]]
  PROVE  \E g \in [0 .. n -> S] : IsDescent(g, n, a, next, step)
<1> DEFINE P(g, m) == \A i \in n - m .. n : g[i] = IF i = n THEN a ELSE step[i][g[next[i]]]
           T == {m \in 0 .. n : \E g \in [n - m .. n -> S] : P(g, m)}
<1>1. 0 \in T
  <2> DEFINE g == [i \in n - 0 .. n |-> a]
  <2>1. g \in [n - 0 .. n -> S] /\ P(g, 0)
    OBVIOUS
  <2> HIDE DEF g, P
  <2> QED BY <2>1
<1>2. ASSUME NEW m \in 0 .. n - 1, m \in T
      PROVE  m + 1 \in T
  <2>1. PICK g \in [n - m .. n -> S] : P(g, m)
    BY <1>2
  <2> DEFINE z == n - (m + 1)
             h == [i \in z .. n |-> IF i = z THEN step[z][g[next[z]]] ELSE g[i]]
  <2>2. z \in 0 .. n - 1 /\ n - m = z + 1 /\ next[z] \in n - m .. n
    OBVIOUS
  <2>3. \A i \in z .. n : i = z \/ i \in n - m .. n
    BY <2>2
  <2>4. h \in [z .. n -> S]
    BY <2>2, <2>3
  <2>5. ASSUME NEW i \in z .. n
        PROVE  h[i] = IF i = n THEN a ELSE step[i][h[next[i]]]
    <3>1. CASE i = z
      <4>1. h[z] = step[z][g[next[z]]] /\ h[next[z]] = g[next[z]]
        BY <2>2
      <4> HIDE DEF h
      <4> QED BY <3>1, <4>1, <2>2
    <3>2. CASE i # z
      <4>1. i \in n - m .. n /\ h[i] = g[i]
        BY <3>2, <2>3
      <4>2. g[i] = IF i = n THEN a ELSE step[i][g[next[i]]]
        BY <4>1, <2>1
      <4>3. ASSUME i # n PROVE h[next[i]] = g[next[i]]
        <5>1. i \in 0 .. n - 1 /\ next[i] \in 0 .. n /\ next[i] > i
          BY <4>1, <4>3
        <5>2. next[i] \in z .. n /\ next[i] # z
          BY <5>1, <2>2
        <5> QED BY <5>2
      <4> HIDE DEF h
      <4> QED BY <4>1, <4>2, <4>3
    <3> QED BY <3>1, <3>2
  <2>6. P(h, m + 1)
    BY <2>5
  <2>7. m + 1 \in 0 .. n
    OBVIOUS
  <2> HIDE DEF h, P
  <2> QED BY <2>4, <2>6, <2>7
<1> HIDE DEF T
<1>3. 0 .. n \subseteq T
  BY <1>1, <1>2, InductUpTo
<1>4. n \in T
  BY <1>3
<1>5. PICK g \in [n - n .. n -> S] : P(g, n)
  BY <1>4 DEF T
<1>6. n - n = 0
  OBVIOUS
<1>7. g \in [0 .. n -> S] /\ \A i \in 0 .. n : g[i] = IF i = n THEN a ELSE step[i][g[next[i]]]
  BY <1>5, <1>6
<1>8. g = [i \in 0 .. n |-> g[i]]
  BY <1>7
<1> QED BY <1>7, <1>8 DEF IsDescent
=============================================================================
