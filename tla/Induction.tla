----------------------------- MODULE Induction -----------------------------
(***************************************************************************)
(* Induction and recursion over the natural numbers, stated with sets and  *)
(* functions in the place of operators.                                    *)
(***************************************************************************)
EXTENDS Integers, WellFoundedInduction, TLAPS

(* Induction: a set with 0, and with n + 1 whenever it has n, has every    *)
(* natural number.                                                         *)
LEMMA SetInduction ==
  ASSUME NEW S, 0 \in S, \A n \in Nat : n \in S => n + 1 \in S
  PROVE  Nat \subseteq S
<1> DEFINE T == Nat \ S
           R == {p \in Nat \X Nat : p[1] < p[2]}
<1>1. IsWellFoundedOn(R, Nat)
  BY NatLessThanWellFounded, Zenon DEF OpToRel
<1>2. SUFFICES ASSUME T # {} PROVE FALSE
  OBVIOUS
<1>3. PICK x \in T : \A y \in T : <<y, x>> \notin R
  <2> HIDE DEF R, T
  <2>1. T \subseteq Nat 
    BY DEF T
  <2> QED BY <1>1, <1>2, <2>1, WFMin
<1>4. x - 1 \in T /\ x \in Nat
  OBVIOUS
<1>5. <<x - 1, x>> \in R
  BY <1>4
<1> QED BY <1>3, <1>4, <1>5

(* g has the value d0 at 0, and step leads from its value at n to the one  *)
(* at n + 1.                                                               *)
Recurs(g, T, d0, step) ==
    g \in [Nat -> T] /\ g[0] = d0 /\ \A n \in Nat : g[n + 1] = step[n][g[n]]

(* Primitive recursion: there is such a function.                          *)
LEMMA Recursion ==
  ASSUME NEW T, NEW d0 \in T, NEW step \in [Nat -> [T -> T]]
  PROVE  \E g : Recurs(g, T, d0, step)
<1> DEFINE Prefix(n, h) == /\ h \in [0 .. n -> T] /\ h[0] = d0
                           /\ \A k \in 0 .. n - 1 : h[k + 1] = step[k][h[k]]
           S == {n \in Nat : \E h : Prefix(n, h)}
           g == [n \in Nat |-> (CHOOSE h : Prefix(n, h))[n]]
<1>1. Nat \subseteq S
  <2>1. 0 \in S
    <3>1. Prefix(0, [k \in 0 .. 0 |-> d0])
      OBVIOUS
    <3> QED BY <3>1
  <2>2. ASSUME NEW n \in Nat, n \in S PROVE n + 1 \in S
    <3>1. PICK h : Prefix(n, h)
      BY <2>2
    <3> DEFINE e == [k \in 0 .. n + 1 |-> IF k = n + 1 THEN step[n][h[n]] ELSE h[k]]
    <3>2. e \in [0 .. n + 1 -> T]
      <4>1. step[n][h[n]] \in T
        BY <3>1
      <4>2. \A k \in 0 .. n : h[k] \in T
        BY <3>1
      <4>3. \A k \in 0 .. n + 1 : k = n + 1 \/ k \in 0 .. n
        OBVIOUS
      <4> HIDE DEF Prefix
      <4> QED BY <4>1, <4>2, <4>3
    <3>3. e[0] = d0
      BY <3>1
    <3>4. ASSUME NEW k \in 0 .. (n + 1) - 1 PROVE e[k + 1] = step[k][e[k]]
      <4>1. e[k] = h[k]
        OBVIOUS
      <4>2. CASE k = n
        BY <4>1, <4>2
      <4>3. CASE k # n
        <5>1. k \in 0 .. n - 1 /\ k + 1 \in 0 .. n + 1 /\ k + 1 # n + 1
          BY <4>3
        <5>2. e[k + 1] = h[k + 1]
          BY <5>1
        <5>3. h[k + 1] = step[k][h[k]]
          BY <5>1, <3>1
        <5> QED BY <4>1, <5>2, <5>3
      <4> QED BY <4>2, <4>3
    <3>5. Prefix(n + 1, e)
      BY <3>2, <3>3, <3>4
    <3>6. n + 1 \in Nat
      OBVIOUS
    <3> HIDE DEF Prefix, e
    <3> QED BY <3>5, <3>6
  <2> HIDE DEF S
  <2> QED BY <2>1, <2>2, SetInduction
<1>2. ASSUME NEW n \in Nat, NEW m \in Nat, NEW a, NEW b, Prefix(n, a), Prefix(m, b)
      PROVE  \A k \in Nat : k <= n /\ k <= m => a[k] = b[k]
  <2> DEFINE U == {k \in Nat : k <= n /\ k <= m => a[k] = b[k]}
  <2>1. 0 \in U
    BY <1>2
  <2>2. ASSUME NEW k \in Nat, k \in U PROVE k + 1 \in U
    <3>1. ASSUME k + 1 <= n, k + 1 <= m PROVE a[k + 1] = b[k + 1]
      <4>1. a[k] = b[k] /\ k \in 0 .. n - 1 /\ k \in 0 .. m - 1
        BY <2>2, <3>1
      <4> QED BY <4>1, <1>2
    <3>2. k + 1 \in Nat
      OBVIOUS
    <3> HIDE DEF Prefix
    <3> QED BY <3>1, <3>2
  <2>3. Nat \subseteq U
    <3> HIDE DEF U
    <3> QED BY <2>1, <2>2, SetInduction
  <2> QED BY <2>3
<1> DEFINE c(n) == CHOOSE h : Prefix(n, h)
<1>3. \A n \in Nat : Prefix(n, c(n))
  <2> TAKE n \in Nat
  <2>1. \E h : Prefix(n, h)
    BY <1>1
  <2> HIDE DEF Prefix
  <2> QED BY <2>1
<1>4. \A n \in Nat : g[n] = c(n)[n]
  <2> HIDE DEF Prefix
  <2> QED OBVIOUS
<1>5. g \in [Nat -> T]
  <2>1. \A n \in Nat : c(n)[n] \in T
    <3> HIDE DEF c
    <3> QED BY <1>3
  <2> HIDE DEF Prefix
  <2> QED BY <2>1
<1> HIDE DEF g
<1>6. g[0] = d0
  <2> HIDE DEF c
  <2> QED BY <1>3, <1>4
<1>7. ASSUME NEW n \in Nat PROVE g[n + 1] = step[n][g[n]]
  <2> HIDE DEF c
  <2>1. c(n + 1)[n + 1] = step[n][c(n + 1)[n]]
    <3>1. Prefix(n + 1, c(n + 1))
      BY <1>3
    <3>2. n \in 0 .. (n + 1) - 1
      OBVIOUS
    <3> QED BY <3>1, <3>2
  <2>2. c(n + 1)[n] = c(n)[n]
    <3>2. n + 1 \in Nat /\ n <= n + 1 /\ n <= n
      OBVIOUS
    <3> HIDE DEF Prefix
    <3>1. Prefix(n + 1, c(n + 1)) /\ Prefix(n, c(n))
      BY <1>3, <3>2
    <3>3. \A k \in Nat : k <= n + 1 /\ k <= n => c(n + 1)[k] = c(n)[k]
      BY <3>1, <3>2, <1>2
    <3> QED BY <3>2, <3>3
  <2> HIDE DEF Prefix
  <2>3. n + 1 \in Nat
    OBVIOUS
  <2>4. g[n + 1] = c(n + 1)[n + 1] /\ g[n] = c(n)[n]
    BY <2>3, <1>4
  <2> QED BY <2>1, <2>2, <2>4
<1>8. Recurs(g, T, d0, step)
  BY <1>5, <1>6, <1>7 DEF Recurs
<1> QED BY <1>8

(* Induction up to n.                                                      *)
LEMMA InductionUpTo ==
  ASSUME NEW n \in Nat, NEW S, 0 \in S, \A i \in 0 .. n - 1 : i \in S => i + 1 \in S
  PROVE  0 .. n \subseteq S
<1> DEFINE T == {i \in Nat : i <= n => i \in S}
<1>1. 0 \in T
  OBVIOUS
<1>2. ASSUME NEW i \in Nat, i \in T PROVE i + 1 \in T
  <2>1. CASE i + 1 <= n
    <3>1. i \in 0 .. n - 1 /\ i \in S
      BY <1>2, <2>1
    <3> QED BY <3>1
  <2>2. CASE ~ (i + 1 <= n)
    BY <2>2
  <2> QED BY <2>1, <2>2
<1>3. Nat \subseteq T
  <2> HIDE DEF T
  <2> QED BY <1>1, <1>2, SetInduction
<1> QED BY <1>3

(* Recursion up to n.                                                      *)
RecursUpTo(g, n, T, d0, step) ==
    g \in [0 .. n -> T] /\ g[0] = d0 /\ \A i \in 1 .. n : g[i] = step[i][g[i - 1]]

LEMMA RecursionUpTo ==
  ASSUME NEW n \in Nat, NEW T, NEW d0 \in T, NEW step \in [1 .. n -> [T -> T]]
  PROVE  \E g : RecursUpTo(g, n, T, d0, step)
<1> DEFINE all == [k \in Nat |-> IF k < n THEN step[k + 1] ELSE [v \in T |-> v]]
<1>1. all \in [Nat -> [T -> T]]
  <2>1. ASSUME NEW k \in Nat PROVE (IF k < n THEN step[k + 1] ELSE [v \in T |-> v]) \in [T -> T]
    <3>1. CASE k < n
      <4>1. k + 1 \in 1 .. n
        BY <3>1
      <4> QED BY <3>1, <4>1
    <3> QED BY <3>1
  <2> QED BY <2>1
<1>2. PICK f : Recurs(f, T, d0, all)
  <2> HIDE DEF all
  <2> QED BY <1>1, Recursion
<1> DEFINE g == [i \in 0 .. n |-> f[i]]
<1>3. g \in [0 .. n -> T] /\ g[0] = d0
  BY <1>2 DEF Recurs
<1>4. ASSUME NEW i \in 1 .. n PROVE g[i] = step[i][g[i - 1]]
  <2>1. i - 1 \in Nat /\ (i - 1) + 1 = i /\ i - 1 < n /\ i - 1 \in 0 .. n /\ i \in 0 .. n
    OBVIOUS
  <2>2. f[i] = all[i - 1][f[i - 1]]
    <3> HIDE DEF all
    <3>1. f[(i - 1) + 1] = all[i - 1][f[i - 1]]
      BY <1>2, <2>1 DEF Recurs
    <3> QED BY <2>1, <3>1
  <2>3. all[i - 1] = step[i]
    BY <2>1
  <2> HIDE DEF all
  <2> QED BY <2>1, <2>2, <2>3
<1> HIDE DEF g
<1>5. RecursUpTo(g, n, T, d0, step)
  BY <1>3, <1>4 DEF RecursUpTo
<1> QED BY <1>5

(* A function that takes these steps as long as its values are in T does   *)
(* so up to n.                                                             *)
LEMMA RecursiveFunction ==
  ASSUME NEW n \in Nat, NEW T, NEW d0 \in T, NEW step \in [1 .. n -> [T -> T]],
         NEW f, f = [i \in 0 .. n |-> f[i]], f[0] = d0,
         \A i \in 1 .. n : f[i - 1] \in T => f[i] = step[i][f[i - 1]]
  PROVE  RecursUpTo(f, n, T, d0, step)
<1> DEFINE S == {i \in 0 .. n : f[i] \in T}
<1>1. 0 \in S
  OBVIOUS
<1>2. ASSUME NEW i \in 0 .. n - 1, i \in S PROVE i + 1 \in S
  <2>1. i + 1 \in 1 .. n /\ (i + 1) - 1 = i /\ i + 1 \in 0 .. n
    OBVIOUS
  <2>2. f[i + 1] = step[i + 1][f[i]] /\ f[i] \in T
    BY <1>2, <2>1
  <2>3. step[i + 1] \in [T -> T]
    BY <2>1
  <2> QED BY <2>1, <2>2, <2>3
<1>3. 0 .. n \subseteq S
  <2> HIDE DEF S
  <2> QED BY <1>1, <1>2, InductionUpTo
<1>4. f \in [0 .. n -> T]
  BY <1>3
<1>5. \A i \in 1 .. n : f[i] = step[i][f[i - 1]]
  BY <1>4
<1> QED BY <1>4, <1>5 DEF RecursUpTo
=============================================================================
