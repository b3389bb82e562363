--------------------------- MODULE GalachNaturals ---------------------------
(***************************************************************************)
(* Induction over the naturals, stated for sets and functions: a           *)
(* statement is the set of the numbers it holds of, a step of a recursion  *)
(* is a function.                                                          *)
(***************************************************************************)
EXTENDS Integers, WellFoundedInduction, TLAPS

\* A set of naturals that is not empty has a least element.
LEMMA LeastNat ==
    ASSUME NEW T, T \subseteq Nat, T # {}
    PROVE  \E x \in T : \A y \in T : x <= y
<1> DEFINE R == OpToRel(<, Nat)
<1>1. \E x \in T : \A y \in T : ~ (<<y, x>> \in R)
  BY NatLessThanWellFounded, WFMin, Zenon
<1>2. \A x, y \in Nat : <<y, x>> \in R <=> y < x
  BY DEF OpToRel
<1> HIDE DEF R
<1>3. PICK x \in T : \A y \in T : <<y, x>> \notin R
  BY <1>1, Zenon
<1>4. \A y \in T : ~(y < x)
  BY <1>2, <1>3, Zenon
<1>5. \A y \in T : x <= y
  BY <1>4
<1> QED BY <1>5, Zenon

\* Induction: a set that has 0 and the successor of every number it has.
LEMMA Induction ==
    ASSUME NEW T, 0 \in T, \A n \in Nat : n \in T => n + 1 \in T
    PROVE  \A n \in Nat : n \in T
<1> DEFINE U == {n \in Nat : n \notin T}
<1>1. SUFFICES ASSUME U # {} PROVE FALSE
  OBVIOUS
<1>2. PICK n \in U : \A m \in U : n <= m
  <2>1. U \subseteq Nat
    OBVIOUS
  <2> HIDE DEF U
  <2> QED BY <1>1, <2>1, LeastNat, Zenon
<1>3. n \in Nat /\ n \notin T /\ n # 0
  OBVIOUS
<1>4. n - 1 \in Nat /\ ~(n <= n - 1)
  BY <1>3
<1>5. n - 1 \in T
  BY <1>2, <1>4
<1>6. n \in T
  BY <1>3, <1>4, <1>5
<1> QED BY <1>3, <1>6

\* Induction below a bound.
LEMMA BoundedInduction ==
    ASSUME NEW N \in Nat, NEW T, 0 \in T, \A n \in 0..(N - 1) : n \in T => n + 1 \in T
    PROVE  \A n \in 0..N : n \in T
<1> DEFINE U == {n \in Nat : n <= N => n \in T}
<1>1. 0 \in U
  OBVIOUS
<1>2. \A n \in Nat : n \in U => n + 1 \in U
  OBVIOUS
<1>3. \A n \in Nat : n \in U
  <2> HIDE DEF U
  <2> QED BY <1>1, <1>2, Induction, Zenon
<1> QED BY <1>3

\* f is what a first value and a step define.
Recurs(f, first, step) == f[0] = first /\ \A n \in Nat : f[n + 1] = step[<<n, f[n]>>]

\* Primitive recursion: a first value and a step define a function.
LEMMA Recursion ==
    ASSUME NEW S, NEW first \in S, NEW step \in [Nat \X S -> S]
    PROVE  \E f \in [Nat -> S] : Recurs(f, first, step)
<1> DEFINE Starts(g, n) == g[0] = first /\ \A i \in 0..(n - 1) : g[i + 1] = step[<<i, g[i]>>]
           Begun(n) == {g \in [0..n -> S] : Starts(g, n)}
           T == {n \in Nat : Begun(n) # {}}
<1>1. 0 \in T
  <2> DEFINE g == [i \in 0..0 |-> first]
  <2>1. g \in [0..0 -> S] /\ g[0] = first
    OBVIOUS
  <2>2. Starts(g, 0)
    BY <2>1
  <2> QED BY <2>1, <2>2
<1>2. ASSUME NEW n \in Nat, n \in T PROVE n + 1 \in T
  <2>1. PICK g \in Begun(n) : TRUE
    BY <1>2
  <2> DEFINE h == [i \in 0..(n + 1) |-> IF i = n + 1 THEN step[<<n, g[n]>>] ELSE g[i]]
  <2>2. g \in [0..n -> S] /\ Starts(g, n)
    BY <2>1
  <2>3. h \in [0..(n + 1) -> S]
    <3>1. step[<<n, g[n]>>] \in S
      BY <2>2
    <3>2. ASSUME NEW i \in 0..(n + 1), i # n + 1 PROVE g[i] \in S
      BY <2>2, <3>2
    <3> QED BY <3>1, <3>2
  <2>4. h[0] = first
    BY <2>2
  <2>5. ASSUME NEW i \in 0..n PROVE h[i + 1] = step[<<i, h[i]>>]
    <3>1. CASE i = n
      <4>1. n \in 0..(n + 1) /\ n + 1 \in 0..(n + 1) /\ n # n + 1
        OBVIOUS
      <4>2. h[n + 1] = step[<<n, g[n]>>] /\ h[n] = g[n]
        BY <4>1
      <4> HIDE DEF h
      <4> QED BY <3>1, <4>2
    <3>2. CASE i # n
      <4>1. i \in 0..(n - 1) /\ i + 1 \in 0..(n + 1) /\ i + 1 # n + 1 /\ i \in 0..(n + 1) /\ i # n + 1
        BY <3>2
      <4>2. h[i + 1] = g[i + 1] /\ h[i] = g[i]
        BY <4>1
      <4> QED BY <2>2, <4>1, <4>2
    <3> QED BY <3>1, <3>2
  <2>6. h \in Begun(n + 1)
    <3> HIDE DEF h
    <3>1. \A i \in 0..((n + 1) - 1) : h[i + 1] = step[<<i, h[i]>>]
      BY <2>5
    <3> QED BY <2>3, <2>4, <3>1
  <2>7. n + 1 \in Nat /\ Begun(n + 1) # {}
    <3> HIDE DEF Begun, h
    <3> QED BY <2>6
  <2> HIDE DEF Begun
  <2> QED BY <2>7
<1>3. \A n \in Nat : Begun(n) # {}
  <2>1. \A n \in Nat : n \in T
    <3> HIDE DEF T
    <3> QED BY <1>1, <1>2, Induction, Zenon
  <2> QED BY <2>1
<1>4. ASSUME NEW n \in Nat, NEW g \in Begun(n), NEW h \in Begun(n + 1)
      PROVE  g[n] = h[n]
  <2> DEFINE V == {i \in 0..n : g[i] = h[i]}
  <2>1. 0 \in V
    OBVIOUS
  <2>2. ASSUME NEW i \in 0..(n - 1), i \in V PROVE i + 1 \in V
    <3>1. i + 1 \in 0..n /\ i \in 0..((n + 1) - 1) /\ g[i] = h[i]
      BY <2>2
    <3>2. g[i + 1] = step[<<i, g[i]>>] /\ h[i + 1] = step[<<i, h[i]>>]
      BY <3>1
    <3> QED BY <3>1, <3>2
  <2>3. \A i \in 0..n : i \in V
    <3> HIDE DEF V
    <3> QED BY <2>1, <2>2, BoundedInduction, Zenon
  <2> QED BY <2>3
<1> DEFINE G(n) == CHOOSE g \in Begun(n) : TRUE
           f == [n \in Nat |-> G(n)[n]]
<1>5. \A n \in Nat : G(n) \in Begun(n)
  BY <1>3, Zenon
<1> HIDE DEF G
<1>6. f \in [Nat -> S]
  <2>1. ASSUME NEW n \in Nat PROVE G(n)[n] \in S
    <3>1. G(n) \in [0..n -> S] /\ n \in 0..n
      BY <1>5
    <3> QED BY <3>1
  <2> QED BY <2>1
<1>7. f[0] = first
  <2>1. G(0) \in Begun(0)
    BY <1>5, Zenon
  <2> QED BY <2>1
<1>8. ASSUME NEW n \in Nat PROVE f[n + 1] = step[<<n, f[n]>>]
  <2>1. G(n) \in Begun(n) /\ G(n + 1) \in Begun(n + 1)
    <3>1. n + 1 \in Nat
      OBVIOUS
    <3> QED BY <1>5, <3>1, Zenon
  <2>2. G(n)[n] = G(n + 1)[n]
    BY <1>4, <2>1, Zenon
  <2>3. G(n + 1)[n + 1] = step[<<n, G(n + 1)[n]>>]
    BY <2>1
  <2> QED BY <2>2, <2>3
<1> HIDE DEF f
<1> QED BY <1>6, <1>7, <1>8 DEF Recurs

=============================================================================
