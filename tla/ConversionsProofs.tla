------------------------- MODULE ConversionsProofs -------------------------
(***************************************************************************)
(* The computations are right for every input: for bytes of every base and *)
(* addresses of every width, for options of any number of routes cut at    *)
(* any length, and for texts of any length.                                *)
(*                                                                         *)
(* What a loop computes is proved from its steps: module Induction shows   *)
(* that the recursive functions exist, and an invariant says what they     *)
(* have computed after n steps.                                            *)
(***************************************************************************)
EXTENDS Conversions, Induction, SequenceTheorems, TLAPS

-----------------------------------------------------------------------------
(* Division                                                                *)

(* Quotient and remainder.                                                 *)
LEMMA DivMod ==
    ASSUME NEW x \in Nat, NEW d \in Nat \ {0}
    PROVE  x \div d \in Nat /\ x % d \in 0 .. d - 1 /\ x = (x \div d) * d + (x % d)
OBVIOUS

LEMMA Cancel ==
    ASSUME NEW p \in Nat, NEW q \in Nat, NEW d \in Nat \ {0}, p * d < q * d + d
    PROVE  p <= q
<1> SUFFICES ASSUME p >= q + 1 PROVE FALSE
  OBVIOUS
<1>1. (p - q - 1) * d >= 0
  OBVIOUS
<1> QED BY <1>1

(* They are the only ones.                                                 *)
LEMMA Quotient ==
    ASSUME NEW x \in Nat, NEW d \in Nat \ {0}, NEW q \in Nat, q * d <= x, x < q * d + d
    PROVE  x \div d = q /\ x % d = x - q * d
<1> DEFINE p == x \div d
           r == x % d
<1>1. p \in Nat /\ r \in 0 .. d - 1 /\ x = p * d + r
  BY DivMod
<1> HIDE DEF p, r
<1>2. p <= q
  <2>1. p * d < q * d + d
    BY <1>1
  <2> QED BY <2>1, <1>1, Cancel
<1>3. q <= p
  <2>1. q * d < p * d + d
    BY <1>1
  <2> QED BY <2>1, <1>1, Cancel
<1>4. p = q
  BY <1>1, <1>2, <1>3
<1>5. r = x - q * d
  BY <1>1, <1>4
<1> QED BY <1>4, <1>5 DEF p, r

(* A product of the same factor grows with the other one.                  *)
LEMMA Times ==
    ASSUME NEW p \in Nat, NEW q \in Nat, NEW d \in Nat
    PROVE  /\ p * d \in Nat
           /\ p <= q => p * d <= q * d
           /\ p < q => p * d + d <= q * d
<1>1. ASSUME p <= q PROVE p * d <= q * d
  <2>1. (q - p) * d >= 0
    BY <1>1
  <2> QED BY <2>1
<1>2. ASSUME p < q PROVE p * d + d <= q * d
  <2>1. (q - p - 1) * d >= 0
    BY <1>2
  <2> QED BY <2>1
<1> QED BY <1>1, <1>2

(* Dividing by e is dividing by d and then by c.                           *)
Twice(x, c, d, e) == x \div e = (x \div d) \div c

(* Dividing by a product is dividing twice.                                *)
LEMMA DivTwice ==
    ASSUME NEW x \in Nat, NEW c \in Nat \ {0}, NEW d \in Nat \ {0}, NEW e \in Nat, e = c * d
    PROVE  Twice(x, c, d, e)
<1> DEFINE y == x \div d
           z == y \div c
           r == x % d
           t == y % c
<1>1. y \in Nat /\ r \in 0 .. d - 1 /\ x = y * d + r
  BY DivMod
<1>2. z \in Nat /\ t \in 0 .. c - 1 /\ y = z * c + t
  BY <1>1, DivMod
<1> HIDE DEF y, z, r, t
<1>3. x = z * (c * d) + (t * d + r)
  BY <1>1, <1>2
<1>4. t * d + d <= c * d /\ t * d \in Nat
  BY <1>2, Times
<1>5. c * d \in Nat \ {0}
  OBVIOUS
<1>6. z * (c * d) <= x /\ x < z * (c * d) + c * d
  <2> DEFINE w == z * (c * d)
             u == t * d
             v == c * d
  <2>1. w \in Nat /\ u \in Nat /\ v \in Nat
    BY <1>2, <1>4, <1>5
  <2> HIDE DEF w, u, v
  <2> QED BY <1>1, <1>3, <1>4, <2>1 DEF w, u, v
<1>7. x \div (c * d) = z
  BY <1>2, <1>5, <1>6, Quotient
<1> QED BY <1>7 DEF Twice, y, z

-----------------------------------------------------------------------------
(* Powers of the base                                                      *)

LEMMA PowerEquation == Power = [k \in Nat |-> IF k = 0 THEN 1 ELSE Base * Power[k - 1]]
<1> DEFINE body(g) == [k \in Nat |-> IF k = 0 THEN 1 ELSE Base * g[k - 1]]
<1>1. Power = CHOOSE g : g = body(g)
  BY Zenon DEF Power
<1>2. \E g : g = body(g)
  <2> DEFINE step == [n \in Nat |-> [v \in Nat |-> Base * v]]
  <2>1. step \in [Nat -> [Nat -> Nat]]
    BY BytesAssumption
  <2>2. PICK g \in [Nat -> Nat] : g[0] = 1 /\ \A n \in Nat : g[n + 1] = step[n][g[n]]
    <3> HIDE DEF step
    <3>1. \E g : Recurs(g, Nat, 1, step)
      BY <2>1, Recursion
    <3> QED BY <3>1 DEF Recurs
  <2>3. ASSUME NEW i \in Nat PROVE g[i] = body(g)[i]
    <3>1. CASE i = 0
      BY <3>1, <2>2
    <3>2. CASE i # 0
      <4>1. i - 1 \in Nat /\ (i - 1) + 1 = i
        BY <3>2
      <4>2. g[i] = step[i - 1][g[i - 1]]
        BY <4>1, <2>2
      <4> QED BY <4>1, <4>2, <3>2
    <3> QED BY <3>1, <3>2
  <2>4. g = body(g)
    BY <2>3
  <2> QED BY <2>4
<1> HIDE DEF body
<1>3. Power = body(Power)
  BY <1>1, <1>2
<1> QED BY <1>3 DEF body

(* A power is positive, and each is the base times the one before.         *)
LEMMA Powers ==
    /\ Power \in [Nat -> Nat \ {0}] /\ Power[0] = 1
    /\ \A n \in Nat : Power[n + 1] = Base * Power[n]
<1>1. Power[0] = 1
  BY PowerEquation, Zenon
<1>2. ASSUME NEW n \in Nat PROVE Power[n + 1] = Base * Power[n]
  <2>1. n + 1 \in Nat /\ n + 1 # 0 /\ (n + 1) - 1 = n
    OBVIOUS
  <2> QED BY <2>1, PowerEquation
<1> DEFINE S == {n \in Nat : Power[n] \in Nat \ {0}}
<1>3. 0 \in S
  BY <1>1
<1>4. ASSUME NEW n \in Nat, n \in S PROVE n + 1 \in S
  <2>1. Power[n] \in Nat /\ Power[n] >= 1
    BY <1>4
  <2>2. Base * Power[n] \in Nat /\ Base * Power[n] >= 1
    BY <2>1, BytesAssumption
  <2> QED BY <1>2, <2>2
<1>5. Nat \subseteq S
  <2> HIDE DEF S
  <2> QED BY <1>3, <1>4, SetInduction
<1>6. Power \in [Nat -> Nat \ {0}]
  <2>1. \A n \in Nat : Power[n] \in Nat \ {0}
    BY <1>5
  <2>2. Power = [n \in Nat |-> Power[n]]
    BY PowerEquation, Zenon
  <2> QED BY <2>1, <2>2
<1> QED BY <1>1, <1>2, <1>6

LEMMA PowerType == ASSUME NEW n \in Nat PROVE Power[n] \in Nat \ {0}
BY Powers

(* Powers grow, by the base at least.                                      *)
LEMMA PowersGrow ==
    ASSUME NEW m \in Nat, NEW n \in Nat, m < n
    PROVE  Base * Power[m] <= Power[n] /\ Power[m] < Power[n]
<1> DEFINE S == {d \in Nat : Base * Power[m] <= Power[m + d + 1]}
<1> USE Powers, BytesAssumption
<1>1. 0 \in S
  OBVIOUS
<1>2. ASSUME NEW d \in Nat, d \in S PROVE d + 1 \in S
  <2>1. m + d + 1 \in Nat /\ m + (d + 1) + 1 = (m + d + 1) + 1
    OBVIOUS
  <2>2. Power[m + (d + 1) + 1] = Base * Power[m + d + 1]
    BY <2>1
  <2>3. Power[m + d + 1] \in Nat /\ Power[m] \in Nat /\ Base * Power[m] \in Nat
    BY <2>1
  <2>4. Power[m + d + 1] <= Base * Power[m + d + 1]
    <3>1. (Base - 1) * Power[m + d + 1] >= 0
      BY SMTT(30), <2>3
    <3> QED BY <3>1, <2>3
  <2>5. Base * Power[m + d + 1] \in Nat
    BY <2>3
  <2> QED BY <1>2, <2>2, <2>3, <2>4, <2>5
<1>3. Nat \subseteq S
  <2> HIDE DEF S
  <2> QED BY <1>1, <1>2, SetInduction
<1>4. n - m - 1 \in Nat /\ m + (n - m - 1) + 1 = n
  OBVIOUS
<1>5. Base * Power[m] <= Power[n]
  BY <1>3, <1>4
<1>6. Power[m] < Base * Power[m]
  <2>1. Power[m] \in Nat /\ Power[m] >= 1
    OBVIOUS
  <2>2. (Base - 2) * Power[m] >= 0
    BY <2>1
  <2> QED BY <2>1, <2>2
<1>7. Power[m] \in Nat /\ Power[n] \in Nat /\ Base * Power[m] \in Nat
  OBVIOUS
<1> QED BY <1>5, <1>6, <1>7

-----------------------------------------------------------------------------
(* The value of bytes                                                      *)

(* A tuple of n bytes has a value, which each byte more multiplies by the  *)
(* base.                                                                   *)
LEMMA ByteValues ==
    ASSUME NEW n \in Nat, NEW b \in [1 .. n -> Byte]
    PROVE  /\ Len(b) = n /\ ToInt(b) = PrefixValues(b)[n]
           /\ PrefixValues(b) \in [0 .. n -> Nat] /\ PrefixValues(b)[0] = 0
           /\ \A i \in 1 .. n : PrefixValues(b)[i] = PrefixValues(b)[i - 1] * Base + b[i]
<1>1. Len(b) = n
  <2>1. b \in Seq(Byte)
    BY SeqDef
  <2>2. 1 .. n = 1 .. Len(b) /\ Len(b) \in Nat
    BY <2>1, LenProperties
  <2> QED BY <2>2
<1> DEFINE body(g) == [i \in 0 .. n |-> IF i = 0 THEN 0 ELSE g[i - 1] * Base + b[i]]
           step == [k \in Nat |-> [v \in Nat |-> IF k < n THEN v * Base + b[k + 1] ELSE v]]
<1>2. PrefixValues(b) = CHOOSE g : g = body(g)
  BY <1>1, Zenon DEF PrefixValues
<1>3. \A i \in 1 .. n : b[i] \in Nat
  BY BytesAssumption DEF Byte
<1>4. step \in [Nat -> [Nat -> Nat]]
  <2>1. ASSUME NEW k \in Nat, NEW v \in Nat PROVE (IF k < n THEN v * Base + b[k + 1] ELSE v) \in Nat
    <3>1. CASE k < n
      <4>1. b[k + 1] \in Nat
        BY <3>1, <1>3
      <4>2. v * Base \in Nat
        BY BytesAssumption
      <4> QED BY <3>1, <4>1, <4>2
    <3> QED BY <3>1
  <2> QED BY <2>1
<1>5. PICK g : Recurs(g, Nat, 0, step)
  <2> HIDE DEF step
  <2> QED BY <1>4, Recursion
<1> DEFINE f == [i \in 0 .. n |-> g[i]]
<1>6. f = body(f)
  <2>1. ASSUME NEW i \in 0 .. n PROVE f[i] = body(f)[i]
    <3>1. CASE i = 0
      BY <3>1, <1>5 DEF Recurs
    <3>2. CASE i # 0
      <4>1. i - 1 \in Nat /\ (i - 1) + 1 = i /\ i - 1 < n /\ i - 1 \in 0 .. n
        BY <3>2
      <4>2. g[i] = step[i - 1][g[i - 1]] /\ g[i - 1] \in Nat
        BY <4>1, <1>5 DEF Recurs
      <4>3. g[i] = g[i - 1] * Base + b[i]
        BY <4>1, <4>2
      <4> HIDE DEF step
      <4> QED BY <4>1, <4>3, <3>2
    <3> QED BY <3>1, <3>2
  <2> HIDE DEF step
  <2> QED BY <2>1
<1>7. \A e : e = body(e) => \A i \in 0 .. n : e[i] = IF i = 0 THEN 0 ELSE e[i - 1] * Base + b[i]
  OBVIOUS
<1>8. \A e : e = body(e) => e = [i \in 0 .. n |-> e[i]]
  OBVIOUS
<1>9. PrefixValues(b) = body(PrefixValues(b))
  <2> HIDE DEF body, f
  <2> QED BY <1>2, <1>6
<1> DEFINE V == PrefixValues(b)
<1>10. V[0] = 0 /\ \A i \in 1 .. n : V[i] = V[i - 1] * Base + b[i]
  <2> HIDE DEF V, body
  <2>1. \A i \in 0 .. n : V[i] = IF i = 0 THEN 0 ELSE V[i - 1] * Base + b[i]
    BY <1>7, <1>9 DEF V
  <2> QED BY <2>1
<1>11. V \in [0 .. n -> Nat]
  <2> HIDE DEF V
  <2> DEFINE S == {i \in Nat : i <= n => V[i] \in Nat}
  <2>1. 0 \in S
    BY <1>10
  <2>2. ASSUME NEW i \in Nat, i \in S PROVE i + 1 \in S
    <3>1. CASE i < n
      <4>1. V[i] \in Nat /\ b[i + 1] \in Nat /\ V[i + 1] = V[i] * Base + b[i + 1]
        BY <3>1, <2>2, <1>3, <1>10
      <4>2. V[i] * Base \in Nat
        BY <4>1, BytesAssumption
      <4> QED BY <4>1, <4>2
    <3> QED BY <3>1
  <2>3. Nat \subseteq S
    <3> HIDE DEF S
    <3> QED BY <2>1, <2>2, SetInduction
  <2>4. \A i \in 0 .. n : V[i] \in Nat
    BY <2>3
  <2>5. V = [i \in 0 .. n |-> V[i]]
    <3> HIDE DEF body
    <3> QED BY <1>8, <1>9 DEF V
  <2> QED BY <2>4, <2>5
<1>12. ToInt(b) = PrefixValues(b)[n]
  BY <1>1 DEF ToInt
<1> QED BY <1>1, <1>10, <1>11, <1>12

(* The same for an address.                                                *)
HasValue(b) ==
    /\ ToInt(b) = PrefixValues(b)[Width] /\ PrefixValues(b) \in [0 .. Width -> Nat]
    /\ \A i \in 1 .. Width : PrefixValues(b)[i] = PrefixValues(b)[i - 1] * Base + b[i]

LEMMA AddressValue == \A b \in Address : HasValue(b)
<1> SUFFICES ASSUME NEW b \in Address PROVE HasValue(b)
  OBVIOUS
<1>1. Width \in Nat /\ b \in [1 .. Width -> Byte]
  BY BytesAssumption DEF Address
<1> QED BY <1>1, ByteValues DEF HasValue

(* Tuples have the same value only if they are the same, and are ordered   *)
(* like their values by the first byte in which they differ.               *)
LEMMA Order ==
    ASSUME NEW n \in Nat, NEW b \in [1 .. n -> Byte], NEW s \in [1 .. n -> Byte], NEW i \in 0 .. n
    PROVE  /\ PrefixValues(b)[i] = PrefixValues(s)[i] <=> \A j \in 1 .. i : b[j] = s[j]
           /\ PrefixValues(b)[i] >= PrefixValues(s)[i] <=>
                \A j \in 1 .. i : b[j] < s[j] => \E m \in 1 .. j - 1 : b[m] > s[m]
<1> DEFINE V == PrefixValues(b)
           U == PrefixValues(s)
           Same(k) == \A j \in 1 .. k : b[j] = s[j]
           Ordered(k) == \A j \in 1 .. k : b[j] < s[j] => \E m \in 1 .. j - 1 : b[m] > s[m]
           S == {k \in Nat : k <= n => /\ V[k] = U[k] <=> Same(k)
                                       /\ V[k] >= U[k] <=> Ordered(k)}
<1>0. V \in [0 .. n -> Nat] /\ V[0] = 0 /\ \A k \in 1 .. n : V[k] = V[k - 1] * Base + b[k]
  BY ByteValues
<1>1. U \in [0 .. n -> Nat] /\ U[0] = 0 /\ \A k \in 1 .. n : U[k] = U[k - 1] * Base + s[k]
  BY ByteValues
<1> HIDE DEF V, U
<1>2. \A k \in 1 .. n : b[k] \in 0 .. Base - 1 /\ s[k] \in 0 .. Base - 1
  BY DEF Byte
<1>3. 0 \in S
  BY <1>0, <1>1
<1>4. ASSUME NEW k \in Nat, k \in S PROVE k + 1 \in S
  <2> SUFFICES ASSUME k + 1 <= n
               PROVE  /\ V[k + 1] = U[k + 1] <=> Same(k + 1)
                      /\ V[k + 1] >= U[k + 1] <=> Ordered(k + 1)
    OBVIOUS
  <2>1. (V[k] = U[k] <=> Same(k)) /\ (V[k] >= U[k] <=> Ordered(k))
    BY <1>4
  <2>2. /\ V[k] \in Nat /\ U[k] \in Nat
        /\ V[k + 1] = V[k] * Base + b[k + 1] /\ U[k + 1] = U[k] * Base + s[k + 1]
        /\ b[k + 1] \in 0 .. Base - 1 /\ s[k + 1] \in 0 .. Base - 1
    BY <1>0, <1>1, <1>2
  <2>3. \A j \in 1 .. k + 1 : j = k + 1 \/ j \in 1 .. k
    OBVIOUS
  <2>4. Same(k + 1) <=> Same(k) /\ b[k + 1] = s[k + 1]
    BY <2>3
  <2>5. Ordered(k + 1) <=>
          Ordered(k) /\ (b[k + 1] < s[k + 1] => \E m \in 1 .. k : b[m] > s[m])
    BY <2>3
  <2>6. Same(k) => ~ \E m \in 1 .. k : b[m] > s[m]
    BY <1>2
  <2>7. Ordered(k) /\ ~ Same(k) => \E m \in 1 .. k : b[m] > s[m]
    <3> SUFFICES ASSUME Ordered(k), NEW j \in 1 .. k, b[j] # s[j] PROVE \E m \in 1 .. k : b[m] > s[m]
      OBVIOUS
    <3>1. CASE b[j] > s[j]
      BY <3>1
    <3>2. CASE b[j] < s[j]
      BY <3>2
    <3> QED BY <3>1, <3>2, <1>2
  <2> HIDE DEF Same, Ordered
  <2> DEFINE x == V[k] * Base
             y == U[k] * Base
  <2>8. x \in Nat /\ y \in Nat /\ (V[k] < U[k] => x + Base <= y) /\ (U[k] < V[k] => y + Base <= x)
    BY <2>2, Times, BytesAssumption
  <2>9. V[k + 1] = x + b[k + 1] /\ U[k + 1] = y + s[k + 1]
    BY <2>2
  <2>10. V[k] = U[k] => x = y
    OBVIOUS
  <2> HIDE DEF x, y
  <2>11. CASE V[k] = U[k]
    BY <2>1, <2>2, <2>4, <2>5, <2>6, <2>8, <2>9, <2>10, <2>11
  <2>12. CASE V[k] < U[k]
    BY SMTT(30), <2>1, <2>2, <2>4, <2>5, <2>8, <2>9, <2>12, BytesAssumption
  <2>13. CASE V[k] > U[k]
    <3>1. V[k] # U[k] /\ V[k] >= U[k] /\ y + Base <= x
      BY <2>2, <2>8, <2>13
    <3>2. ~ Same(k + 1) /\ Ordered(k + 1)
      BY <3>1, <2>1, <2>4, <2>5, <2>7
    <3>3. V[k + 1] # U[k + 1] /\ V[k + 1] >= U[k + 1]
      BY SMTT(30), <3>1, <2>2, <2>8, <2>9, BytesAssumption
    <3> QED BY <3>2, <3>3
  <2> QED BY <2>2, <2>11, <2>12, <2>13
<1>5. Nat \subseteq S
  <2> HIDE DEF S
  <2> QED BY <1>3, <1>4, SetInduction
<1>6. i \in S /\ i <= n
  BY <1>5
<1> QED BY <1>6 DEF V, U

(* The bytes behind the first j add less than the power of their number.   *)
LEMMA LastBytes ==
    ASSUME NEW n \in Nat, NEW b \in [1 .. n -> Byte], NEW j \in 0 .. n, NEW i \in Nat, j + i <= n
    PROVE  /\ PrefixValues(b)[j] * Power[i] <= PrefixValues(b)[j + i]
           /\ PrefixValues(b)[j + i] < PrefixValues(b)[j] * Power[i] + Power[i]
<1> DEFINE V == PrefixValues(b)
           S == {m \in Nat : j + m <= n => /\ V[j] * Power[m] <= V[j + m]
                                           /\ V[j + m] < V[j] * Power[m] + Power[m]}
<1>1. V \in [0 .. n -> Nat] /\ \A m \in 1 .. n : V[m] = V[m - 1] * Base + b[m]
  BY ByteValues
<1> HIDE DEF V
<1>2. V[j] \in Nat
  BY <1>1
<1>3. 0 \in S
  <2>1. j + 0 = j /\ Power[0] = 1
    BY Powers
  <2> QED BY <1>2, <2>1
<1>4. ASSUME NEW m \in Nat, m \in S PROVE m + 1 \in S
  <2> SUFFICES ASSUME j + (m + 1) <= n
               PROVE  /\ V[j] * Power[m + 1] <= V[j + (m + 1)]
                      /\ V[j + (m + 1)] < V[j] * Power[m + 1] + Power[m + 1]
    OBVIOUS
  <2>1. /\ V[j] * Power[m] <= V[j + m] /\ V[j + m] < V[j] * Power[m] + Power[m]
        /\ V[j + m] \in Nat /\ Power[m] \in Nat
    BY <1>1, <1>4, PowerType
  <2>2. V[j + (m + 1)] = V[j + m] * Base + b[j + m + 1] /\ b[j + m + 1] \in 0 .. Base - 1
    <3>1. j + m + 1 \in 1 .. n /\ (j + m + 1) - 1 = j + m /\ j + (m + 1) = j + m + 1
      OBVIOUS
    <3> QED BY <3>1, <1>1 DEF Byte
  <2> DEFINE p == Power[m]
             v == V[j]
             x == v * p
             y == V[j + m]
             X == v * (Base * p)
             Y == y * Base
             Q == Base * p
  <2>3. x \in Nat /\ x <= y /\ y < x + p /\ y \in Nat /\ p \in Nat /\ v \in Nat
    BY <2>1, <1>2
  <2>4. X = x * Base /\ Q = p * Base /\ (x + p) * Base = x * Base + p * Base
    <3> HIDE DEF p, v, y
    <3> QED BY <2>3, BytesAssumption
  <2>5. x * Base <= Y /\ Y + Base <= (x + p) * Base
    <3>1. x + p \in Nat
      BY <2>3
    <3> HIDE DEF x, y, p, v
    <3>2. Base \in Nat
      BY BytesAssumption
    <3>3. x * Base <= y * Base
      BY <2>3, <3>2, Times
    <3>4. y * Base + Base <= (x + p) * Base
      BY <2>3, <3>1, <3>2, Times
    <3> QED BY <3>3, <3>4
  <2>6. X \in Nat /\ Y \in Nat /\ Q \in Nat
    <3> HIDE DEF p, v, y, x
    <3> QED BY <2>3, BytesAssumption
  <2>7. V[j] * Power[m + 1] = X /\ Power[m + 1] = Q /\ V[j + (m + 1)] = Y + b[j + m + 1]
    BY <2>2, Powers
  <2>8. X <= Y /\ Y + Base <= X + Q
    <3> HIDE DEF X, Y, Q, x, p
    <3> QED BY <2>4, <2>5
  <2> HIDE DEF X, Y, Q, x, p, v, y
  <2> QED BY <2>2, <2>6, <2>7, <2>8, BytesAssumption
<1>5. Nat \subseteq S
  <2> HIDE DEF S
  <2> QED BY <1>3, <1>4, SetInduction
<1>6. V[j] * Power[i] <= V[j + i] /\ V[j + i] < V[j] * Power[i] + Power[i]
  BY <1>5
<1> QED BY <1>6 DEF V

(* An address is below the modulus, and not below the power of the other   *)
(* bytes if its first byte is not zero.                                    *)
LEMMA Bound ==
    ASSUME NEW b \in Address
    PROVE  /\ ToInt(b) \in Nat /\ ToInt(b) < Modulus
           /\ b[1] # 0 => Power[Width - 1] <= ToInt(b)
<1> DEFINE V == PrefixValues(b)
<1>1. Width \in Nat /\ Width >= 1 /\ b \in [1 .. Width -> Byte]
  BY BytesAssumption DEF Address
<1>2. ToInt(b) = V[Width] /\ V \in [0 .. Width -> Nat] /\ V[0] = 0
      /\ \A m \in 1 .. Width : V[m] = V[m - 1] * Base + b[m]
  BY <1>1, ByteValues
<1>3. V[0 + Width] < V[0] * Power[Width] + Power[Width]
  <2>1. 0 \in 0 .. Width /\ 0 + Width <= Width
    BY <1>1
  <2> QED BY <1>1, <2>1, LastBytes, Zenon DEF V
<1>4. V[1] * Power[Width - 1] <= V[1 + (Width - 1)]
  <2>1. 1 \in 0 .. Width /\ Width - 1 \in Nat /\ 1 + (Width - 1) <= Width
    BY <1>1
  <2> QED BY <1>1, <2>1, LastBytes, Zenon DEF V
<1> HIDE DEF V
<1>5. V[1] = b[1] /\ b[1] \in Nat
  <2>1. 1 \in 1 .. Width /\ b[1] \in 0 .. Base - 1
    BY <1>1 DEF Byte
  <2>2. V[1] = V[0] * Base + b[1] /\ V[0] = 0
    BY <1>2, <2>1
  <2> QED BY <2>1, <2>2, BytesAssumption
<1>6. 0 + Width = Width /\ 1 + (Width - 1) = Width /\ Power[Width] \in Nat /\ Power[Width - 1] \in Nat
  <2>1. Width - 1 \in Nat /\ 0 + Width = Width /\ 1 + (Width - 1) = Width
    BY <1>1
  <2>2. Power[Width] \in Nat /\ Power[Width - 1] \in Nat
    BY <1>1, <2>1, PowerType
  <2> QED BY <2>1, <2>2
<1>7. ToInt(b) \in Nat /\ ToInt(b) < Modulus
  BY <1>1, <1>2, <1>3, <1>6 DEF Modulus
<1>8. ASSUME b[1] # 0 PROVE Power[Width - 1] <= ToInt(b)
  <2>1. (b[1] - 1) * Power[Width - 1] >= 0
    BY <1>5, <1>6, <1>8
  <2>2. b[1] * Power[Width - 1] <= ToInt(b)
    BY <1>2, <1>4, <1>5, <1>6
  <2> QED BY <1>5, <1>6, <1>7, <2>1, <2>2
<1> QED BY <1>7, <1>8

(* First bytes with the same value are the same.                           *)
LEMMA SameBytes ==
    ASSUME NEW b \in Address, NEW s \in Address, NEW m \in 0 .. Width
    PROVE  PrefixValues(b)[m] = PrefixValues(s)[m] <=> \A i \in 1 .. m : b[i] = s[i]
<1>1. Width \in Nat /\ b \in [1 .. Width -> Byte] /\ s \in [1 .. Width -> Byte]
  BY BytesAssumption DEF Address
<1> QED BY <1>1, Order, Zenon

(* Addresses with the same value are the same.                             *)
LEMMA OneToOne ==
    ASSUME NEW b \in Address, NEW s \in Address, ToInt(b) = ToInt(s)
    PROVE  b = s
<1>1. Width \in Nat /\ b \in [1 .. Width -> Byte] /\ s \in [1 .. Width -> Byte] /\ Width \in 0 .. Width
  BY BytesAssumption DEF Address
<1>2. ToInt(b) = PrefixValues(b)[Width] /\ ToInt(s) = PrefixValues(s)[Width]
  BY <1>1, ByteValues
<1>3. \A j \in 1 .. Width : b[j] = s[j]
  BY <1>1, <1>2, SameBytes
<1> QED BY <1>1, <1>3

(* The first byte in which addresses differ decides their order.           *)
LEMMA NotBeforeAgrees ==
    ASSUME NEW b \in Address, NEW s \in Address
    PROVE  NotBefore(b, s) <=> ToInt(s) <= ToInt(b)
<1>1. Width \in Nat /\ b \in [1 .. Width -> Byte] /\ s \in [1 .. Width -> Byte] /\ Width \in 0 .. Width
  BY BytesAssumption DEF Address
<1>2. ToInt(b) = PrefixValues(b)[Width] /\ ToInt(s) = PrefixValues(s)[Width]
  BY <1>1, ByteValues
<1>3. PrefixValues(b)[Width] >= PrefixValues(s)[Width] <=> NotBefore(b, s)
  BY <1>1, Order, Zenon DEF NotBefore
<1>4. PrefixValues(b)[Width] \in Nat /\ PrefixValues(s)[Width] \in Nat
  BY <1>2, Bound
<1> QED BY <1>2, <1>3, <1>4

-----------------------------------------------------------------------------
(* Masks                                                                   *)

(* The mask of h * Power[k] addresses leaves the last k bytes, and h       *)
(* values of the byte before them, to the hosts.                           *)
LEMMA Spans ==
    ASSUME NEW k \in 0 .. Width - 1, NEW h \in 1 .. Base, size = h * Power[k], NEW i \in 1 .. Width
    PROVE  HostSpan(i) = IF i < Width - k THEN 1 ELSE IF i = Width - k THEN h ELSE Base
<1>1. Base \in Nat /\ Base >= 2 /\ Width \in Nat /\ Power[k] \in Nat \ {0} /\ k \in Nat
  BY BytesAssumption, PowerType
<1> DEFINE p == Power[k]
<1>2. size \in Nat /\ p <= size /\ size <= Base * p /\ (h # Base => size < Base * p)
      /\ (h # 1 => p < size)
  <2>1. (h - 1) * p >= 0 /\ (Base - h) * p >= 0
    BY <1>1
  <2>2. h # Base => (Base - h - 1) * p >= 0
    BY <1>1
  <2>3. h # 1 => (h - 2) * p >= 0
    BY <1>1
  <2>4. h * p \in Nat /\ Base * p \in Nat
    BY <1>1
  <2> QED BY <1>1, <2>1, <2>2, <2>3, <2>4
<1>3. CASE i < Width - k
  <2>1. k < Width - i /\ Width - i \in Nat
    BY <1>1, <1>3
  <2>2. Base * p <= Power[Width - i] /\ Power[Width - i] \in Nat /\ Base * p \in Nat
    BY <1>1, <2>1, PowersGrow, PowerType
  <2>3. Power[Width - i] >= size
    <3> DEFINE q == Base * p
    <3> HIDE DEF q
    <3> QED BY <1>2, <2>2 DEF q
  <2> QED BY <1>3, <2>3 DEF HostSpan
<1>4. CASE i = Width - k
  <2>1. Width - i = k /\ Power[Width - i + 1] = Base * p
    BY <1>1, <1>4, Powers
  <2>2. CASE h = 1
    BY <1>1, <1>4, <2>1, <2>2 DEF HostSpan
  <2>3. CASE h = Base
    BY <1>1, <1>2, <1>4, <2>1, <2>3 DEF HostSpan
  <2>4. CASE h # 1 /\ h # Base
    <3>1. h * p <= size /\ size < h * p + p /\ h \in Nat
      BY <1>1, <1>2
    <3>2. size \div p = h
      BY <1>1, <1>2, <3>1, Quotient
    <3>3. ~ (p >= size) /\ ~ (Base * p <= size)
      <4> DEFINE q == Base * p
      <4>1. q \in Nat
        BY <1>1
      <4> HIDE DEF q
      <4> QED BY <1>1, <1>2, <2>4, <4>1 DEF q
    <3>4. HostSpan(i) = size \div p
      BY <2>1, <3>3 DEF HostSpan
    <3> QED BY <1>4, <3>2, <3>4
  <2> QED BY <2>2, <2>3, <2>4
<1>5. CASE i > Width - k
  <2>1. Width - i \in Nat /\ Width - i + 1 \in Nat /\ Width - i < k /\ Width - i + 1 <= k
    BY <1>1, <1>5
  <2>2. Power[Width - i] < p /\ Power[Width - i] \in Nat
    BY <1>1, <2>1, PowersGrow, PowerType
  <2>3. Power[Width - i + 1] <= p /\ Power[Width - i + 1] \in Nat
    <3>1. CASE Width - i + 1 = k
      BY <3>1, <1>1
    <3>2. CASE Width - i + 1 < k
      <4>1. Power[Width - i + 1] < p
        BY <1>1, <2>1, <3>2, PowersGrow
      <4> QED BY <1>1, <2>1, <4>1, PowerType
    <3> QED BY <2>1, <3>1, <3>2
  <2>4. ~ (Power[Width - i] >= size) /\ Power[Width - i + 1] <= size
    BY <1>1, <1>2, <2>2, <2>3
  <2>5. ~ (i < Width - k) /\ i # Width - k
    BY <1>1, <1>5
  <2> QED BY <2>4, <2>5 DEF HostSpan
<1> QED BY <1>1, <1>3, <1>4, <1>5

(* The number of the subnet of an address comes from the bytes up to the   *)
(* one that the mask divides.                                              *)
LEMMA SubnetNumber ==
    ASSUME NEW k \in 0 .. Width - 1, NEW h \in 1 .. Base, Base % h = 0, size = h * Power[k],
           NEW b \in Address
    PROVE  LET j == Width - k
               V == PrefixValues(b)
           IN  /\ size \in Nat \ {0} /\ Base \div h \in Nat /\ V[j - 1] \in Nat /\ V[j] \in Nat
               /\ b[j] \div h \in 0 .. (Base \div h) - 1
               /\ V[j] \div h = V[j - 1] * (Base \div h) + (b[j] \div h)
               /\ ToInt(b) \div size = V[j] \div h
               /\ V[j] = V[j - 1] * Base + b[j]
<1> DEFINE j == Width - k
           V == PrefixValues(b)
           q == Base \div h
           c == b[j] \div h
           r == b[j] % h
<1>1. /\ Base \in Nat /\ Base >= 2 /\ Width \in Nat /\ Power[k] \in Nat \ {0} /\ k \in Nat
      /\ b \in [1 .. Width -> Byte] /\ j \in 1 .. Width /\ j - 1 \in 0 .. Width /\ j \in 0 .. Width
      /\ j + k = Width /\ j + k <= Width /\ h \in Nat \ {0}
  BY SMTT(30), BytesAssumption, PowerType DEF Address
<1>2. V \in [0 .. Width -> Nat] /\ ToInt(b) = V[Width] /\ V[j] = V[j - 1] * Base + b[j]
  <2>1. HasValue(b)
    BY Zenon, AddressValue
  <2> QED BY <1>1, <2>1 DEF HasValue
<1>3. V[j + k] \div Power[k] = V[j]
  <2> HIDE DEF j
  <2>1. V[j] * Power[k] <= V[j + k] /\ V[j + k] < V[j] * Power[k] + Power[k]
    BY <1>1, LastBytes, Zenon
  <2>2. V[j] \in Nat /\ V[j + k] \in Nat
    BY <1>1, <1>2
  <2> QED BY <1>1, <2>1, <2>2, Quotient
<1>4. V[j - 1] \in Nat /\ V[j] \in Nat /\ V[Width] \in Nat /\ b[j] \in 0 .. Base - 1 /\ b[j] \in Nat
  BY <1>1, <1>2 DEF Byte
<1> HIDE DEF j, V
<1>5. q \in Nat /\ Base = q * h
  <2>1. q \in Nat /\ Base = q * h + (Base % h)
    BY <1>1, DivMod
  <2>2. q * h \in Nat
    BY <1>1, <2>1
  <2> QED BY <1>1, <2>1, <2>2
<1>6. c \in Nat /\ r \in 0 .. h - 1 /\ b[j] = c * h + r
  BY <1>1, <1>4, DivMod
<1>7. size \in Nat \ {0}
  BY <1>1
<1>8. ToInt(b) \div size = V[j] \div h
  <2>1. V[Width] \div size = (V[Width] \div Power[k]) \div h
    <3>1. Twice(V[Width], h, Power[k], size)
      BY <1>1, <1>4, <1>7, DivTwice, Zenon
    <3> QED BY <3>1 DEF Twice
  <2>2. V[Width] \div Power[k] = V[j]
    BY <1>1, <1>3
  <2> QED BY <1>2, <2>1, <2>2
<1>9. c \in 0 .. q - 1
  <2> HIDE DEF c, q, r
  <2>1. c * h < q * h
    <3> DEFINE x == c * h
               y == q * h
    <3>1. x \in Nat /\ y = Base /\ b[j] = x + r
      BY <1>1, <1>5, <1>6
    <3> HIDE DEF x, y
    <3>2. x < y
      BY <1>1, <1>4, <1>6, <3>1
    <3> QED BY <3>2 DEF x, y
  <2>2. q <= c => q * h <= c * h
    BY <1>1, <1>5, <1>6, Times
  <2>3. c * h \in Nat /\ q * h \in Nat
    BY <1>1, <1>5, <1>6
  <2> QED BY <1>5, <1>6, <2>1, <2>2, <2>3
<1>10. V[j] \div h = V[j - 1] * q + c
  <2> DEFINE v == V[j - 1]
             n == v * q + c
  <2> HIDE DEF c, q, r
  <2>1. n \in Nat
    BY <1>4, <1>5, <1>6
  <2>2. V[j] = n * h + r
    <3>1. V[j] = v * (q * h) + (c * h + r)
      BY <1>2, <1>5, <1>6
    <3>4. v \in Nat
      BY <1>4
    <3> HIDE DEF v
    <3>2. n * h = v * (q * h) + c * h
      BY <1>1, <1>5, <1>6, <3>4
    <3>3. v * (q * h) \in Nat /\ c * h \in Nat
      <4>1. q * h \in Nat
        BY <1>1, <1>5
      <4> QED BY <1>1, <1>6, <3>4, <4>1
    <3> HIDE DEF n
    <3> QED BY <1>6, <3>1, <3>2, <3>3
  <2>3. n * h \in Nat
    BY <1>1, <2>1
  <2> HIDE DEF n
  <2>4. n * h <= V[j] /\ V[j] < n * h + h
    BY <1>1, <1>6, <2>2, <2>3
  <2>5. V[j] \div h = n
    BY <1>1, <1>4, <2>1, <2>4, Quotient
  <2> QED BY <2>5 DEF n
<1> HIDE DEF c, q
<1> QED BY <1>2, <1>4, <1>5, <1>7, <1>8, <1>9, <1>10 DEF c, q, V, j

(* What is left of a byte when its host bits are masked off.               *)
LEMMA MaskedBytes ==
    ASSUME NEW k \in 0 .. Width - 1, NEW h \in 1 .. Base, size = h * Power[k],
           NEW b \in Address, NEW i \in 1 .. Width
    PROVE  /\ HostSpan(i) \in 1 .. Base
           /\ b[i] - (b[i] % HostSpan(i)) =
                IF i < Width - k THEN b[i] ELSE IF i = Width - k THEN (b[i] \div h) * h ELSE 0
<1>1. /\ Base \in Nat /\ Base >= 2 /\ Width \in Nat /\ k \in Nat /\ h \in Nat \ {0}
      /\ b[i] \in 0 .. Base - 1 /\ b[i] \in Nat
  BY BytesAssumption DEF Address, Byte
<1>2. CASE i < Width - k
  <2>1. HostSpan(i) = 1
    BY <1>2, Spans
  <2>2. b[i] % 1 = 0
    BY <1>1
  <2> QED BY <1>1, <1>2, <2>1, <2>2
<1>3. CASE i = Width - k
  <2>1. HostSpan(i) = h
    BY <1>3, Spans
  <2>2. b[i] \div h \in Nat /\ b[i] % h \in 0 .. h - 1 /\ b[i] = (b[i] \div h) * h + (b[i] % h)
    BY <1>1, DivMod
  <2>3. (b[i] \div h) * h \in Nat
    BY <1>1, <2>2
  <2>4. b[i] - (b[i] % h) = (b[i] \div h) * h
    BY <1>1, <2>2, <2>3
  <2> QED BY <1>1, <1>3, <2>1, <2>4
<1>4. CASE i > Width - k
  <2>1. ~ (i < Width - k) /\ i # Width - k
    BY <1>1, <1>4
  <2>2. HostSpan(i) = Base
    BY <2>1, Spans
  <2>3. b[i] % Base = b[i]
    BY <1>1
  <2> QED BY <1>1, <2>1, <2>2, <2>3
<1> QED BY <1>1, <1>2, <1>3, <1>4

(* IPNet.Contains: the masked bytes agree if the addresses lie in the same *)
(* subnet.                                                                 *)
LEMMA ContainsAgrees ==
    ASSUME NEW k \in 0 .. Width - 1, NEW h \in 1 .. Base, Base % h = 0, size = h * Power[k],
           net \in Address, NEW b \in Address
    PROVE  ContainsBytes(b) <=> ToInt(b) \div size = ToInt(net) \div size
<1> DEFINE j == Width - k
           q == Base \div h
           V == PrefixValues(b)
           U == PrefixValues(net)
           c == b[j] \div h
           d == net[j] \div h
<1>1. /\ Base \in Nat /\ Base >= 2 /\ Width \in Nat /\ k \in Nat /\ h \in Nat \ {0} /\ j \in 1 .. Width
      /\ b \in [1 .. Width -> Byte] /\ net \in [1 .. Width -> Byte] /\ j - 1 \in 0 .. Width
  BY BytesAssumption DEF Address
<1>2. /\ size \in Nat \ {0} /\ q \in Nat /\ V[j - 1] \in Nat /\ c \in 0 .. q - 1
      /\ ToInt(b) \div size = V[j - 1] * q + c
  BY SubnetNumber
<1>3. /\ U[j - 1] \in Nat /\ d \in 0 .. q - 1
      /\ ToInt(net) \div size = U[j - 1] * q + d
  BY SubnetNumber
<1>4. V[j - 1] = U[j - 1] <=> \A i \in 1 .. j - 1 : b[i] = net[i]
  BY <1>1, SameBytes
<1>5. ContainsBytes(b) <=> \A i \in 1 .. Width : b[i] - (b[i] % HostSpan(i)) = net[i] - (net[i] % HostSpan(i))
  BY DEF ContainsBytes, Masked
<1>6. \A i \in 1 .. Width : /\ b[i] - (b[i] % HostSpan(i)) =
                                 IF i < j THEN b[i] ELSE IF i = j THEN c * h ELSE 0
                            /\ net[i] - (net[i] % HostSpan(i)) =
                                 IF i < j THEN net[i] ELSE IF i = j THEN d * h ELSE 0
  BY MaskedBytes
<1> HIDE DEF c, d, V, U, q, j
<1>7. ContainsBytes(b) <=> (\A i \in 1 .. j - 1 : b[i] = net[i]) /\ c * h = d * h
  <2>1. \A i \in 1 .. Width : i < j <=> i \in 1 .. j - 1
    BY <1>1
  <2> QED BY <1>1, <1>5, <1>6, <2>1
<1>8. c * h = d * h <=> c = d
  <2>1. c \in Nat /\ d \in Nat
    BY <1>2, <1>3
  <2>2. (c < d => c * h + h <= d * h) /\ (d < c => d * h + h <= c * h) /\ c * h \in Nat /\ d * h \in Nat
    BY <1>1, <2>1, Times
  <2> QED BY <1>1, <2>1, <2>2
<1>9. V[j - 1] * q + c = U[j - 1] * q + d <=> V[j - 1] = U[j - 1] /\ c = d
  <2> DEFINE v == V[j - 1]
             u == U[j - 1]
  <2>1. v \in Nat /\ u \in Nat
    BY <1>2, <1>3
  <2> HIDE DEF v, u
  <2>2. (v < u => v * q + q <= u * q) /\ (u < v => u * q + q <= v * q) /\ v * q \in Nat /\ u * q \in Nat
    BY <1>2, <2>1, Times
  <2>3. v * q + c = u * q + d <=> v = u /\ c = d
    BY <1>2, <1>3, <2>1, <2>2
  <2> QED BY <2>3 DEF v, u
<1> QED BY <1>2, <1>3, <1>4, <1>7, <1>8, <1>9

(* A subnet that is written without host bits.                             *)
LEMMA NoHostBits ==
    ASSUME NEW k \in 0 .. Width - 1, NEW h \in 1 .. Base, Base % h = 0, size = h * Power[k],
           NEW b \in Address, b = Masked(b)
    PROVE  ToInt(b) % size = 0
<1> DEFINE j == Width - k
           V == PrefixValues(b)
           S == {m \in Nat : j + m <= Width => V[j + m] = V[j] * Power[m]}
<1>1. /\ Base \in Nat /\ Base >= 2 /\ Width \in Nat /\ k \in Nat /\ h \in Nat \ {0} /\ j \in 1 .. Width
      /\ b \in [1 .. Width -> Byte] /\ j + k = Width /\ Power[k] \in Nat \ {0}
      /\ j - 1 \in 0 .. Width /\ j \in 0 .. Width
  BY BytesAssumption, PowerType DEF Address
<1>0. size \in Nat \ {0}
  BY <1>1
<1>2. V \in [0 .. Width -> Nat] /\ ToInt(b) = V[Width] /\ V[j] \in Nat /\ V[j - 1] \in Nat
      /\ \A m \in 1 .. Width : V[m] = V[m - 1] * Base + b[m]
  <2>1. V \in [0 .. Width -> Nat] /\ ToInt(b) = V[Width]
        /\ \A m \in 1 .. Width : V[m] = V[m - 1] * Base + b[m]
    <3>1. HasValue(b)
      BY Zenon, AddressValue
    <3> QED BY <3>1 DEF HasValue
  <2> HIDE DEF j, V
  <2> QED BY <1>1, <2>1
<1>3. \A i \in 1 .. Width : b[i] = IF i < j THEN b[i] ELSE IF i = j THEN (b[i] \div h) * h ELSE 0
  <2>1. \A i \in 1 .. Width : b[i] = b[i] - (b[i] % HostSpan(i))
    BY DEF Masked
  <2> QED BY <2>1, MaskedBytes
<1> HIDE DEF V, j
<1>4. 0 \in S
  <2>1. j + 0 = j /\ Power[0] = 1
    BY <1>1, Powers
  <2> QED BY <1>2, <2>1
<1>5. ASSUME NEW m \in Nat, m \in S PROVE m + 1 \in S
  <2> SUFFICES ASSUME j + (m + 1) <= Width PROVE V[j + (m + 1)] = V[j] * Power[m + 1]
    OBVIOUS
  <2>1. j + m + 1 \in 1 .. Width /\ (j + m + 1) - 1 = j + m /\ j + (m + 1) = j + m + 1
        /\ ~ (j + m + 1 < j) /\ j + m + 1 # j
    BY <1>1
  <2>2. b[j + m + 1] = 0 /\ V[j + m + 1] = V[j + m] * Base + b[j + m + 1]
    BY <1>2, <1>3, <2>1
  <2>3. V[j + m] = V[j] * Power[m] /\ V[j + m] \in Nat /\ Power[m] \in Nat
    <3>1. j + m \in 0 .. Width /\ j + m <= Width
      BY <1>1
    <3> QED BY <1>2, <1>5, <3>1, PowerType
  <2>4. V[j + m + 1] = V[j + m] * Base
    BY <1>1, <2>2, <2>3
  <2>5. Power[m + 1] = Base * Power[m]
    BY Powers
  <2> DEFINE v == V[j]
             p == Power[m]
  <2>6. v \in Nat /\ p \in Nat
    BY <1>2, <2>3
  <2> HIDE DEF v, p
  <2>7. (v * p) * Base = v * (Base * p)
    BY <1>1, <2>6
  <2> QED BY <2>1, <2>3, <2>4, <2>5, <2>7 DEF v, p
<1>6. Nat \subseteq S
  <2> HIDE DEF S
  <2> QED BY <1>4, <1>5, SetInduction
<1>7. V[Width] = V[j] * Power[k]
  <2>1. j + k <= Width /\ k \in Nat
    BY <1>1
  <2>2. V[j + k] = V[j] * Power[k]
    BY <1>6, <2>1
  <2> QED BY <1>1, <2>2
<1>8. V[j] = (V[j] \div h) * h
  <2> DEFINE c == b[j] \div h
             q == Base \div h
             v == V[j - 1]
  <2>1. q \in Nat /\ V[j] \div h = v * q + c /\ c \in Nat /\ V[j] = v * Base + b[j]
    BY SubnetNumber DEF j, V
  <2>2. Base = q * h
    <3>1. Base = q * h + (Base % h)
      BY <1>1, DivMod
    <3> QED BY <1>1, <2>1, <3>1
  <2>3. b[j] = c * h
    BY <1>1, <1>3
  <2> HIDE DEF c, q
  <2>4. (v * q + c) * h = v * (q * h) + c * h
    <3>1. v \in Nat
      BY <1>2
    <3> HIDE DEF v
    <3> QED BY <1>1, <2>1, <3>1
  <2> QED BY <2>1, <2>2, <2>3, <2>4
<1> DEFINE z == V[j] \div h
<1>9. z \in Nat
  BY <1>1, <1>2, DivMod
<1>10. V[Width] = z * size
  <2> HIDE DEF z
  <2> QED BY <1>1, <1>7, <1>8, <1>9 DEF z
<1> HIDE DEF z
<1>11. V[Width] \in Nat /\ z * size <= V[Width] /\ V[Width] < z * size + size
  <2> DEFINE w == z * size
  <2>1. w \in Nat
    BY <1>0, <1>9
  <2> HIDE DEF w
  <2>2. V[Width] = w
    BY <1>10 DEF w
  <2>3. V[Width] \in Nat /\ w <= V[Width] /\ V[Width] < w + size
    BY <1>0, <2>1, <2>2
  <2> QED BY <2>3 DEF w
<1>12. V[Width] % size = V[Width] - z * size
  BY <1>0, <1>9, <1>11, Quotient
<1> QED BY <1>2, <1>10, <1>11, <1>12

(* Bytes that are full from byte j + 1 on.                                 *)
LEMMA FullBytes ==
    ASSUME NEW f \in Address, NEW j \in 0 .. Width, \A i \in j + 1 .. Width : f[i] = Base - 1
    PROVE  ToInt(f) + 1 = (PrefixValues(f)[j] + 1) * Power[Width - j]
<1> DEFINE V == PrefixValues(f)
           v == V[j] + 1
           S == {m \in Nat : j + m <= Width => V[j + m] + 1 = v * Power[m]}
<1>1. Base \in Nat /\ Base >= 2 /\ Width \in Nat /\ f \in [1 .. Width -> Byte]
  BY BytesAssumption DEF Address
<1>2. V \in [0 .. Width -> Nat] /\ ToInt(f) = V[Width]
      /\ \A m \in 1 .. Width : V[m] = V[m - 1] * Base + f[m]
  BY <1>1, ByteValues
<1> HIDE DEF V
<1>3. V[j] \in Nat /\ v \in Nat
  BY <1>2
<1>4. 0 \in S
  <2>1. j + 0 = j /\ Power[0] = 1
    BY Powers
  <2> QED BY <1>3, <2>1
<1>5. ASSUME NEW m \in Nat, m \in S PROVE m + 1 \in S
  <2> SUFFICES ASSUME j + (m + 1) <= Width PROVE V[j + (m + 1)] + 1 = v * Power[m + 1]
    OBVIOUS
  <2>1. j + m + 1 \in 1 .. Width /\ (j + m + 1) - 1 = j + m /\ j + (m + 1) = j + m + 1
        /\ j + m + 1 \in j + 1 .. Width /\ j + m \in 0 .. Width /\ j + m <= Width
    BY <1>1
  <2>2. f[j + m + 1] = Base - 1 /\ V[j + m + 1] = V[j + m] * Base + f[j + m + 1]
    BY <1>2, <2>1
  <2>3. V[j + m] + 1 = v * Power[m] /\ V[j + m] \in Nat /\ Power[m] \in Nat
    BY <1>2, <1>5, <2>1, PowerType
  <2>4. Power[m + 1] = Base * Power[m]
    BY Powers
  <2> DEFINE p == Power[m]
             w == V[j + m]
  <2>5. p \in Nat /\ w \in Nat /\ w + 1 = v * p
    BY <2>3
  <2> HIDE DEF v, p, w
  <2>6. w * Base + Base = (w + 1) * Base /\ (v * p) * Base = v * (Base * p) /\ w * Base \in Nat
    BY <1>1, <1>3, <2>5
  <2>7. w * Base + Base = v * (Base * p)
    BY <2>5, <2>6
  <2>8. V[j + (m + 1)] = w * Base + (Base - 1)
    BY <2>1, <2>2 DEF w
  <2>9. V[j + (m + 1)] + 1 = w * Base + Base
    BY <1>1, <2>6, <2>8
  <2> QED BY <2>4, <2>7, <2>9 DEF p
<1>6. Nat \subseteq S
  <2> HIDE DEF S
  <2> QED BY <1>4, <1>5, SetInduction
<1>7. Width - j \in Nat /\ j + (Width - j) <= Width /\ j + (Width - j) = Width
  BY <1>1
<1>8. V[j + (Width - j)] + 1 = v * Power[Width - j]
  <2> HIDE DEF v
  <2> QED BY <1>6, <1>7
<1> QED BY <1>2, <1>7, <1>8 DEF V

(* networkRange: the host bits of the subnet's address are set in its      *)
(* bytes, and the last byte is decremented without a borrow.               *)
LEMMA NetworkEndOK ==
    ASSUME NEW k \in 0 .. Width - 1, NEW h \in 1 .. Base, Base % h = 0, size = h * Power[k],
           net \in Address, size >= 4
    PROVE  ToInt(NetworkEndBytes) = NetworkEnd(Conf)
<1> DEFINE j == Width - k
           U == PrefixValues(net)
           full == [i \in 1 .. Width |-> net[i] - (net[i] % HostSpan(i)) + HostSpan(i) - 1]
           F == PrefixValues(full)
           E == PrefixValues(NetworkEndBytes)
           c == net[j] \div h
           z == U[j] \div h
<1>1. /\ Base \in Nat /\ Base >= 2 /\ Width \in Nat /\ k \in Nat /\ h \in Nat \ {0} /\ h <= Base
      /\ j \in 1 .. Width /\ j - 1 \in 0 .. Width /\ j \in 0 .. Width /\ Width \in 1 .. Width
      /\ Width - j = k /\ Power[k] \in Nat \ {0}
      /\ net \in [1 .. Width -> Byte]
  BY SMTT(30), BytesAssumption, PowerType DEF Address
<1>2. /\ size \in Nat \ {0} /\ U[j - 1] \in Nat /\ U[j] \in Nat /\ ToInt(net) \div size = z
      /\ U[j] = U[j - 1] * Base + net[j] /\ z = U[j - 1] * (Base \div h) + c /\ Base \div h \in Nat
      /\ c \in 0 .. (Base \div h) - 1
  BY SubnetNumber
<1>3. Base = (Base \div h) * h
  <2>1. Base \div h \in Nat /\ Base = (Base \div h) * h + (Base % h)
    BY <1>1, DivMod
  <2> QED BY <1>1, <2>1
<1>4. c * h \in Nat /\ c * h + h <= Base
  <2> DEFINE q == Base \div h
  <2>1. c \in Nat /\ q \in Nat /\ c < q
    BY <1>2
  <2> HIDE DEF c, q
  <2>2. c * h + h <= q * h /\ c * h \in Nat
    BY <1>1, <2>1, Times
  <2> QED BY <1>3, <2>2 DEF q
<1>5. \A i \in 1 .. Width : /\ HostSpan(i) = IF i < j THEN 1 ELSE IF i = j THEN h ELSE Base
                            /\ net[i] - (net[i] % HostSpan(i)) =
                                 IF i < j THEN net[i] ELSE IF i = j THEN c * h ELSE 0
  BY Spans, MaskedBytes
<1>6. \A i \in 1 .. Width : full[i] = IF i < j THEN net[i] ELSE IF i = j THEN c * h + h - 1 ELSE Base - 1
  <2> HIDE DEF j, c
  <2>1. \A i \in 1 .. Width : net[i] \in Nat
    BY <1>1 DEF Byte
  <2> QED BY <1>1, <1>4, <1>5, <2>1
<1>7. full \in Address
  <2> HIDE DEF full, j, c
  <2> DEFINE m == c * h
  <2>3. \A i \in 1 .. Width : net[i] \in 0 .. Base - 1
    BY <1>1 DEF Byte
  <2>4. m \in Nat /\ m + h <= Base
    BY <1>4
  <2>5. \A i \in 1 .. Width : full[i] = IF i < j THEN net[i] ELSE IF i = j THEN m + h - 1 ELSE Base - 1
    BY <1>6
  <2> HIDE DEF m
  <2>1. \A i \in 1 .. Width : full[i] \in Byte
    <3> TAKE i \in 1 .. Width
    <3>1. CASE i < j
      BY <2>3, <2>5, <3>1 DEF Byte
    <3>2. CASE ~ (i < j) /\ i = j
      <4>1. full[i] = m + h - 1
        BY <2>5, <3>2
      <4> QED BY <1>1, <2>4, <4>1 DEF Byte
    <3>3. CASE ~ (i < j) /\ i # j
      <4>1. full[i] = Base - 1
        BY <2>5, <3>3
      <4> QED BY <1>1, <4>1 DEF Byte
    <3> QED BY <3>1, <3>2, <3>3
  <2>2. full = [i \in 1 .. Width |-> full[i]]
    BY DEF full
  <2> QED BY <2>1, <2>2 DEF Address
<1>8. full[Width] >= 1
  <2> HIDE DEF full, c, j
  <2>1. CASE j = Width
    <3>1. k = 0 /\ size = h
      BY <1>1, <2>1, Powers
    <3>2. full[Width] = c * h + h - 1
      BY <1>1, <1>6, <2>1
    <3> QED BY <1>1, <1>4, <3>1, <3>2
  <2>2. CASE j # Width
    <3>1. full[Width] = Base - 1
      BY <1>1, <1>6, <2>2
    <3> QED BY <1>1, <3>1
  <2> QED BY <2>1, <2>2
<1>9. \A i \in 1 .. Width : NetworkEndBytes[i] = IF i = Width THEN full[i] - 1 ELSE full[i]
  <2>1. \A i \in 1 .. Width :
            NetworkEndBytes[i] = IF i = Width THEN (full[i] + Base - 1) % Base ELSE full[i]
    BY DEF NetworkEndBytes
  <2>2. full[Width] \in 1 .. Base - 1
    <3> HIDE DEF full
    <3> QED BY <1>1, <1>7, <1>8 DEF Address, Byte
  <2> HIDE DEF full
  <2>3. (full[Width] + Base - 1) % Base = full[Width] - 1
    <3> DEFINE x == full[Width]
               y == x + Base - 1
               q == 1
    <3>1. y \in Nat /\ q \in Nat /\ q * Base <= y /\ y < q * Base + Base /\ y - q * Base = x - 1
      BY SMTT(30), <1>1, <2>2
    <3> HIDE DEF x, y, q
    <3>2. y % Base = y - q * Base
      <4>1. Base \in Nat \ {0} /\ y \in Nat /\ q \in Nat /\ q * Base <= y /\ y < q * Base + Base
        BY <1>1, <3>1
      <4> QED BY <4>1, Quotient
    <3> QED BY <3>1, <3>2 DEF x, y
  <2> QED BY <2>1, <2>3
<1>10. NetworkEndBytes \in Address
  <2>1. NetworkEndBytes = [i \in 1 .. Width |-> NetworkEndBytes[i]]
    BY DEF NetworkEndBytes
  <2> HIDE DEF full
  <2>2. \A i \in 1 .. Width : full[i] \in 0 .. Base - 1
    BY <1>7 DEF Address, Byte
  <2>3. \A i \in 1 .. Width : NetworkEndBytes[i] \in Byte
    <3> TAKE i \in 1 .. Width
    <3>1. CASE i = Width
      <4>1. NetworkEndBytes[i] = full[i] - 1 /\ full[i] \in 0 .. Base - 1 /\ full[i] >= 1
        BY <1>8, <1>9, <2>2, <3>1
      <4> QED BY <1>1, <4>1 DEF Byte
    <3>2. CASE i # Width
      BY <1>9, <2>2, <3>2 DEF Byte
    <3> QED BY <3>1, <3>2
  <2> QED BY <2>1, <2>3 DEF Address
<1>11. ToInt(NetworkEndBytes) + 1 = ToInt(full)
  <2> HIDE DEF full
  <2>1. E[Width - 1] = F[Width - 1]
    <3>1. Width - 1 \in 0 .. Width /\ \A i \in 1 .. Width - 1 : NetworkEndBytes[i] = full[i]
      BY <1>1, <1>9
    <3> QED BY <1>7, <1>10, <3>1, SameBytes
  <2>2. ToInt(NetworkEndBytes) = E[Width] /\ E[Width] = E[Width - 1] * Base + NetworkEndBytes[Width]
    <3>1. HasValue(NetworkEndBytes)
      BY Zenon, <1>10, AddressValue
    <3> QED BY <1>1, <3>1 DEF HasValue
  <2>3. ToInt(full) = F[Width] /\ F[Width] = F[Width - 1] * Base + full[Width] /\ F[Width - 1] \in Nat
    <3>1. HasValue(full)
      BY Zenon, <1>7, AddressValue
    <3>2. Width - 1 \in 0 .. Width
      BY <1>1
    <3> QED BY <1>1, <3>1, <3>2 DEF HasValue
  <2>4. NetworkEndBytes[Width] = full[Width] - 1 /\ full[Width] \in Nat
    BY <1>1, <1>7, <1>9 DEF Address, Byte
  <2>5. F[Width - 1] * Base \in Nat
    BY <1>1, <2>3
  <2> QED BY <2>1, <2>2, <2>3, <2>4, <2>5
<1>12. F[j] + 1 = (z + 1) * h
  <2>1. F[j - 1] = U[j - 1]
    <3> HIDE DEF full, j, c
    <3>1. \A i \in 1 .. j - 1 : full[i] = net[i]
      BY <1>1, <1>6
    <3> QED BY <1>1, <1>7, <3>1, SameBytes
  <2>2. F[j] = F[j - 1] * Base + full[j]
    <3> HIDE DEF full, j
    <3>1. HasValue(full)
      BY Zenon, <1>7, AddressValue
    <3> QED BY <1>1, <3>1 DEF HasValue
  <2>3. full[j] = c * h + h - 1
    <3> HIDE DEF full, j, c
    <3> QED BY <1>1, <1>6
  <2> DEFINE u == U[j - 1]
             q == Base \div h
  <2>4. u \in Nat /\ q \in Nat /\ c \in Nat /\ z = u * q + c /\ Base = q * h
    BY <1>2, <1>3
  <2>5. F[j] = u * (q * h) + (c * h + h - 1)
    <3> HIDE DEF full, F, c, j, q
    <3>1. F[j] = u * Base + (c * h + h - 1)
      BY <2>1, <2>2, <2>3
    <3> QED BY <2>4, <3>1
  <2> HIDE DEF full, F, c, j, q, u, z
  <2>6. (u * q + c + 1) * h = u * (q * h) + (c * h + h) /\ u * (q * h) \in Nat
    <3>1. q * h \in Nat
      BY <1>1, <2>4
    <3> QED BY <1>1, <2>4, <3>1
  <2>7. F[j] + 1 = u * (q * h) + (c * h + h)
    BY <1>1, <1>4, <2>5, <2>6
  <2> QED BY <2>4, <2>6, <2>7
<1>13. ToInt(full) + 1 = (F[j] + 1) * Power[k]
  <2> HIDE DEF full, j, c
  <2>1. \A i \in j + 1 .. Width : full[i] = Base - 1
    BY <1>1, <1>6
  <2>2. ToInt(full) + 1 = (PrefixValues(full)[j] + 1) * Power[Width - j]
    BY <1>1, <1>7, <2>1, FullBytes
  <2> QED BY <1>1, <2>2
<1>14. z \in Nat
  BY <1>1, <1>2, DivMod
<1> DEFINE w == z * size
<1>15. ToInt(full) + 1 = w + size /\ w \in Nat
  <2> HIDE DEF full, F, z
  <2>1. ((z + 1) * h) * Power[k] = z * (h * Power[k]) + h * Power[k]
    BY <1>1, <1>14
  <2>2. z * size \in Nat
    BY <1>2, <1>14
  <2> QED BY <1>12, <1>13, <2>1, <2>2
<1>16. ToInt(net) \in Nat /\ ToInt(net) - (ToInt(net) % size) = w
  <2> DEFINE x == ToInt(net)
  <2>1. x \in Nat
    BY Bound
  <2>2. x % size \in 0 .. size - 1 /\ x = (x \div size) * size + (x % size)
    BY <1>2, <2>1, DivMod
  <2>3. x \div size = z
    BY <1>2
  <2> HIDE DEF x, z, w
  <2>4. x = w + (x % size)
    BY <2>2, <2>3 DEF w
  <2>5. x - (x % size) = w
    BY <1>2, <1>15, <2>1, <2>2, <2>4
  <2> QED BY <2>1, <2>5 DEF x
<1>17. NetworkEnd(Conf) = w + size - 2
  BY <1>16 DEF NetworkEnd, Conf
<1>18. ToInt(NetworkEndBytes) \in Nat /\ ToInt(full) \in Nat
  <2> HIDE DEF full
  <2> QED BY <1>7, <1>10, Bound
<1> HIDE DEF w, full
<1> QED BY <1>2, <1>11, <1>15, <1>17, <1>18

-----------------------------------------------------------------------------
(* The bytes of a value                                                    *)

(* A value that fits into the width comes back from its bytes.             *)
LEMMA PaddedOK ==
    ASSUME NEW n \in Nat, n < Modulus
    PROVE  Padded(n, Width) \in Address /\ ToInt(Padded(n, Width)) = n
<1> DEFINE b == Padded(n, Width)
           V == PrefixValues(b)
           S == {i \in Nat : i <= Width => V[i] = n \div Power[Width - i]}
<1>1. Base \in Nat /\ Base >= 2 /\ Width \in Nat
  BY BytesAssumption
<1>2. b = [i \in 1 .. Width |-> (n \div Power[Width - i]) % Base]
  BY DEF Padded
<1>3. ASSUME NEW i \in 0 .. Width
      PROVE  Width - i \in Nat /\ Power[Width - i] \in Nat \ {0} /\ n \div Power[Width - i] \in Nat
  <2>1. Width - i \in Nat
    BY <1>1
  <2>2. Power[Width - i] \in Nat \ {0}
    BY <2>1, PowerType
  <2> QED BY <2>1, <2>2, DivMod
<1>4. b \in [1 .. Width -> Byte]
  <2>1. ASSUME NEW i \in 1 .. Width PROVE (n \div Power[Width - i]) % Base \in 0 .. Base - 1
    <3> DEFINE y == n \div Power[Width - i]
    <3>1. y \in Nat /\ Base \in Nat \ {0}
      BY <1>1, <1>3
    <3> HIDE DEF y
    <3>2. y % Base \in 0 .. Base - 1
      BY <3>1, DivMod
    <3> QED BY <3>2 DEF y
  <2> HIDE DEF b
  <2> QED BY <1>2, <2>1 DEF Byte
<1> HIDE DEF b
<1>5. V \in [0 .. Width -> Nat] /\ V[0] = 0 /\ ToInt(b) = V[Width]
      /\ \A i \in 1 .. Width : V[i] = V[i - 1] * Base + b[i]
  BY <1>1, <1>4, ByteValues
<1> HIDE DEF V
<1>6. 0 \in S
  <2> DEFINE q == 0
             d == Power[Width]
  <2>1. d \in Nat \ {0} /\ n < d /\ Width - 0 = Width
    BY <1>1, PowerType DEF Modulus
  <2>2. q \in Nat /\ q * d <= n /\ n < q * d + d
    BY <2>1
  <2> HIDE DEF q, d
  <2>3. n \div d = q
    BY <2>1, <2>2, Quotient
  <2> QED BY <1>5, <2>1, <2>3 DEF q, d
<1>7. ASSUME NEW i \in Nat, i \in S PROVE i + 1 \in S
  <2> SUFFICES ASSUME i + 1 <= Width PROVE V[i + 1] = n \div Power[Width - (i + 1)]
    OBVIOUS
  <2>1. /\ i + 1 \in 1 .. Width /\ i + 1 \in 0 .. Width /\ (i + 1) - 1 = i /\ i <= Width
        /\ Width - i = (Width - (i + 1)) + 1 /\ Width - (i + 1) \in Nat
    BY <1>1
  <2> DEFINE p == Power[Width - (i + 1)]
             y == n \div p
             e == Power[Width - i]
  <2>2. p \in Nat \ {0} /\ y \in Nat
    BY <1>3, <2>1
  <2>3. e = Base * p /\ e \in Nat
    <3>1. e = Power[(Width - (i + 1)) + 1]
      BY <2>1
    <3>2. Power[(Width - (i + 1)) + 1] = Base * p
      BY <2>1, Powers
    <3>3. Base * p \in Nat
      BY <1>1, <2>2
    <3> QED BY <3>1, <3>2, <3>3
  <2>4. V[i] = n \div e
    BY <1>7, <2>1
  <2>5. b[i + 1] = y % Base
    BY <1>2, <2>1
  <2>6. V[i + 1] = V[i] * Base + b[i + 1]
    BY <1>5, <2>1
  <2> HIDE DEF p, e
  <2>7. Twice(n, Base, p, e)
    <3>1. Base \in Nat \ {0}
      BY <1>1
    <3> HIDE DEF y
    <3> QED BY <2>2, <2>3, <3>1, DivTwice, Zenon
  <2>8. V[i] = y \div Base
    BY <2>4, <2>7 DEF Twice
  <2> HIDE DEF y
  <2>9. y = (y \div Base) * Base + (y % Base)
    BY <1>1, <2>2, DivMod
  <2>10. V[i + 1] = y
    BY <2>5, <2>6, <2>8, <2>9
  <2> QED BY <2>10 DEF y, p
<1>8. Nat \subseteq S
  <2> HIDE DEF S
  <2> QED BY <1>6, <1>7, SetInduction
<1>9. V[Width] = n \div Power[0]
  <2>1. Width - Width = 0 /\ Width <= Width
    BY <1>1
  <2> QED BY <1>1, <1>8, <2>1
<1>10. n \div Power[0] = n
  BY Powers
<1> QED BY <1>4, <1>5, <1>9, <1>10 DEF b, Address

(* big.Int.Bytes gives as many bytes as an address has for a value that    *)
(* does not fit into fewer.                                                *)
LEMMA BytesOfOK ==
    ASSUME NEW n \in Nat, Power[Width - 1] <= n, n < Modulus
    PROVE  BytesOf(n) \in Address /\ ToInt(BytesOf(n)) = n
<1> DEFINE Fits == {w \in 0 .. Width + 1 : n < Power[w]}
<1>1. Width \in Nat /\ Width >= 1 /\ Width - 1 \in Nat
  BY BytesAssumption
<1>2. Width \in Fits
  BY <1>1 DEF Modulus
<1>3. ASSUME NEW w \in Fits PROVE Width <= w
  <2> SUFFICES ASSUME w <= Width - 1 PROVE FALSE
    BY <1>1
  <2>1. w \in Nat /\ n < Power[w] /\ Power[w] \in Nat /\ Power[Width - 1] \in Nat
    BY <1>1, PowerType
  <2>2. CASE w = Width - 1
    BY <2>1, <2>2
  <2>3. CASE w < Width - 1
    <3>1. Power[w] < Power[Width - 1]
      BY <1>1, <2>1, <2>3, PowersGrow
    <3> QED BY <2>1, <3>1
  <2> QED BY <1>1, <2>1, <2>2, <2>3
<1>4. (CHOOSE w \in Fits : \A v \in Fits : w <= v) = Width
  <2>1. \A w \in Fits : w \in Nat
    OBVIOUS
  <2> HIDE DEF Fits
  <2>2. \A w \in Fits : (\A v \in Fits : w <= v) => w = Width
    BY <1>1, <1>2, <1>3, <2>1
  <2> QED BY <1>2, <1>3, <2>2
<1>5. BytesOf(n) = Padded(n, Width)
  BY <1>4, Zenon DEF BytesOf
<1> QED BY <1>5, PaddedOK

(* NextIP and PrevIP.                                                      *)
LEMMA NextIPOK ==
    ASSUME ip \in Address
    PROVE  NextIPAgrees
<1> DEFINE x == ToInt(ip)
<1> SUFFICES ASSUME ip[1] # 0, x + 1 < Modulus
             PROVE  /\ NextIPBytes(ip) \in Address
                    /\ ToInt(NextIPBytes(ip)) = NextIP(x)
                    /\ PrevIPBytes(NextIPBytes(ip)) = ip
  BY DEF NextIPAgrees
<1>1. x \in Nat /\ Power[Width - 1] <= x /\ Power[Width - 1] \in Nat /\ Modulus \in Nat
  <2>1. Width \in Nat /\ Width - 1 \in Nat
    BY BytesAssumption
  <2> QED BY <2>1, Bound, PowerType DEF Modulus
<1> HIDE DEF x
<1>2. x + 1 \in Nat /\ Power[Width - 1] <= x + 1 /\ x < Modulus /\ x + 1 # 0 /\ (x + 1) - 1 = x
  BY <1>1
<1>3. BytesOf(x + 1) \in Address /\ ToInt(BytesOf(x + 1)) = x + 1
  BY <1>1, <1>2, BytesOfOK
<1>4. BytesOf(x) \in Address /\ ToInt(BytesOf(x)) = x
  BY <1>1, <1>2, BytesOfOK
<1>5. NextIPBytes(ip) = BytesOf(x + 1)
  BY DEF NextIPBytes, x
<1>6. PrevIPBytes(NextIPBytes(ip)) = BytesOf(x)
  BY <1>2, <1>3, <1>5 DEF PrevIPBytes
<1>7. BytesOf(x) = ip
  BY <1>4, OneToOne DEF x
<1> QED BY <1>3, <1>5, <1>6, <1>7 DEF NextIP

(* validateRangeIP.                                                        *)
LEMMA ValidateOK ==
    ASSUME NEW k \in 0 .. Width - 1, NEW h \in 1 .. Base, Base % h = 0, size = h * Power[k],
           ip \in Address, net \in Address, start \in Address \cup {Nil}, end \in Address \cup {Nil}
    PROVE  ValidateAgrees
<1>1. ContainsBytes(ip) <=> Contains(Conf, ToInt(ip))
  <2>1. ContainsBytes(ip) <=> ToInt(ip) \div size = ToInt(net) \div size
    BY ContainsAgrees
  <2>2. Conf.size = size /\ Conf.ip = ToInt(net)
    BY DEF Conf
  <2> HIDE DEF Conf
  <2>3. Contains(Conf, ToInt(ip)) <=> ToInt(ip) \div Conf.size = Conf.ip \div Conf.size
    BY DEF Contains
  <2> QED BY <2>1, <2>2, <2>3
<1>2. start # Nil => Value(start) # Nil /\ (NotBefore(ip, start) <=> Value(start) <= ToInt(ip))
  BY NotBeforeAgrees, Bound, BytesAssumption DEF Value
<1>3. end # Nil => Value(end) # Nil /\ (NotBefore(end, ip) <=> ToInt(ip) <= Value(end))
  BY NotBeforeAgrees, Bound, BytesAssumption DEF Value
<1>4. (start = Nil => Value(start) = Nil) /\ (end = Nil => Value(end) = Nil)
  BY DEF Value
<1>5. InBounds(Conf, ToInt(ip), Value(start), Value(end)) <=>
        /\ Contains(Conf, ToInt(ip))
        /\ Value(start) # Nil => Value(start) <= ToInt(ip)
        /\ Value(end) # Nil => ToInt(ip) <= Value(end)
  BY DEF InBounds
<1> QED BY <1>1, <1>2, <1>3, <1>4, <1>5 DEF ValidateAgrees, ValidateRangeIP

-----------------------------------------------------------------------------
(* The inputs of Conversions are addresses and masks.                      *)
LEMMA InputsOK ==
    Init => ip \in Address /\ net \in Address /\ IsMask(size)
            /\ start \in Address \cup {Nil} /\ end \in Address \cup {Nil}
<1> SUFFICES ASSUME Init PROVE /\ ip \in Address /\ net \in Address /\ IsMask(size)
                               /\ start \in Address \cup {Nil} /\ end \in Address \cup {Nil}
  OBVIOUS
<1>1. CASE AddressInputs
  BY <1>1, BytesAssumption DEF AddressInputs
<1>2. CASE NoAddress
  <2>1. Width \in Nat \ {0} /\ Width - 1 \in 0 .. Width - 1 /\ Base \in 1 .. Base /\ (Width - 1) + 1 = Width
        /\ Width - 1 \in Nat /\ Base % Base = 0
    BY BytesAssumption
  <2>2. Power[0] = 1 /\ Power[Width] = Base * Power[Width - 1]
    BY <2>1, Powers
  <2>3. Power[0] < Power[Width] /\ Power[Width] \in Nat
    BY <2>1, PowersGrow, PowerType
  <2>4. 0 < Modulus /\ 1 < Modulus
    BY <2>2, <2>3 DEF Modulus
  <2>5. ip \in Address /\ net \in Address
    BY <1>2, <2>4, PaddedOK DEF NoAddress
  <2>6. size = Base * Power[Width - 1]
    BY <1>2, <2>2 DEF NoAddress, Modulus
  <2>7. IsMask(size)
    BY <2>1, <2>6 DEF IsMask
  <2> QED BY <1>2, <2>5, <2>7 DEF NoAddress
<1> QED BY <1>1, <1>2 DEF Init

(* BytesAgree for every byte and every width of an address: the byte       *)
(* slices of validateRangeIP, networkRange, NextIP and PrevIP compute what *)
(* HostLocal and its proofs compute with integers, for addresses of four   *)
(* bytes of 256 values as for the two small ones of the run.               *)
THEOREM BytesOK == Spec => []BytesAgree
<1>1. Init => BytesAgree
  <2> SUFFICES ASSUME Init PROVE BytesAgree
    OBVIOUS
  <2>1. ip \in Address /\ net \in Address /\ start \in Address \cup {Nil} /\ end \in Address \cup {Nil}
    BY InputsOK
  <2>2. PICK k \in 0 .. Width - 1, h \in 1 .. Base : Base % h = 0 /\ size = h * Power[k]
    BY InputsOK DEF IsMask
  <2>3. ValidateAgrees
    BY <2>1, <2>2, ValidateOK
  <2>4. NetworkEndAgrees
    BY <2>1, <2>2, NetworkEndOK DEF NetworkEndAgrees
  <2>5. NextIPAgrees
    BY <2>1, NextIPOK
  <2> QED BY <2>3, <2>4, <2>5 DEF BytesAgree
<1>2. BytesAgree /\ [Next]_vars => BytesAgree'
  <2> SUFFICES ASSUME BytesAgree, [Next]_vars PROVE BytesAgree'
    OBVIOUS
  <2>1. ip' = ip /\ net' = net /\ size' = size /\ start' = start /\ end' = end
    BY DEF Next, vars
  <2> QED
    BY <2>1 DEF BytesAgree, ValidateAgrees, NetworkEndAgrees, NextIPAgrees, Conf, ValidateRangeIP,
                ContainsBytes, Masked, NetworkEndBytes, HostSpan
<1> QED BY <1>1, <1>2, PTL DEF Spec

-----------------------------------------------------------------------------
(* The ranges that NewIPAllocator accepts                                  *)

(* Numbers have the same quotient if they lie in the same subnet.          *)
LEMMA Quotients ==
    ASSUME NEW s \in Nat \ {0}, NEW n \in Nat, n % s = 0, NEW a \in Nat
    PROVE  a \div s = n \div s <=> n <= a /\ a < n + s
<1> DEFINE q == n \div s
           k == a \div s
<1>1. q \in Nat /\ n = q * s
  <2>1. q \in Nat /\ n = q * s + (n % s)
    BY DivMod
  <2> QED BY <2>1
<1>2. k \in Nat /\ (a % s) \in 0 .. s - 1 /\ a = k * s + (a % s)
  BY DivMod
<1> HIDE DEF q
<1>3. ASSUME n <= a, a < n + s PROVE k = q
  <2>1. q * s <= a /\ a < q * s + s
    BY <1>1, <1>3
  <2> QED BY <1>1, <2>1, Quotient
<1> HIDE DEF k
<1>4. k = q => n <= a /\ a < n + s
  BY <1>1, <1>2
<1> QED BY <1>3, <1>4 DEF q, k

(* The checks of NewIPAllocator suffice for the range that Get searches:   *)
(* if the subnet is written without host bits and rangeStart is not the    *)
(* broadcast address, an accepted range lies in the subnet, is not empty,  *)
(* and has the network and the broadcast address only where the            *)
(* configuration names them.  This is what ConfAssumption asks of the      *)
(* configurations, for every subnet and not just those of the instances.   *)
THEOREM AcceptedRangesAreSound ==
    ASSUME Nil \notin Nat, NEW c \in IPAMConfig(Nat),
           Accepts(c), c.ip % c.size = 0, c.rangeStart # Broadcast(c)
    PROVE  RangeIsSound(c)
<1>1. /\ c.size \in Nat \ {0} /\ c.size >= 4 /\ c.ip \in Nat
      /\ c.rangeStart \in Nat \cup {Nil} /\ c.rangeEnd \in Nat \cup {Nil}
  BY DEF IPAMConfig, Accepts
<1>2. \A a \in Nat : Contains(c, a) <=> c.ip <= a /\ a < c.ip + c.size
  BY <1>1, Quotients DEF Contains
<1>3. NetworkEnd(c) = c.ip + c.size - 2 /\ Broadcast(c) = c.ip + c.size - 1
  BY <1>1 DEF NetworkEnd, Broadcast
<1>4. Start(c) \in Nat /\ Contains(c, Start(c)) /\ c.ip <= Start(c) /\ Start(c) < c.ip + c.size
      /\ Start(c) # Broadcast(c)
  BY <1>1, <1>2, <1>3 DEF Start, NextIP, Accepts, InBounds
<1>5. End(c) \in Nat /\ Contains(c, End(c)) /\ Start(c) <= End(c)
  BY <1>1, <1>2, <1>3, <1>4 DEF End, Accepts, InBounds
<1>6. c.ip \in Start(c) .. End(c) => c.rangeStart = c.ip
  BY <1>1, <1>4 DEF Start, NextIP
<1>7. Broadcast(c) \in Start(c) .. End(c) => c.rangeEnd = Broadcast(c)
  BY <1>1, <1>2, <1>3, <1>4, <1>5 DEF End
<1> QED BY <1>4, <1>5, <1>6, <1>7 DEF RangeIsSound

(* AcceptedRangeIsSound for every byte and width: what the checks of       *)
(* NewIPAllocator let through is sound in the code's own terms, with the   *)
(* subnet and the bounds given as bytes.                                   *)
THEOREM AcceptedOK == Spec => []AcceptedRangeIsSound
<1>1. Init => AcceptedRangeIsSound
  <2> SUFFICES ASSUME Init, Accepts(conf), net = Masked(net), conf.rangeStart # Broadcast(conf)
               PROVE  RangeIsSound(conf)
    BY DEF AcceptedRangeIsSound
  <2>1. net \in Address /\ start \in Address \cup {Nil} /\ end \in Address \cup {Nil}
    BY InputsOK
  <2>2. PICK k \in 0 .. Width - 1, h \in 1 .. Base : Base % h = 0 /\ size = h * Power[k]
    BY InputsOK DEF IsMask
  <2>3. size \in Nat \ {0}
    BY <2>1, <2>2, SubnetNumber
  <2>4. ToInt(net) % size = 0
    BY <2>1, <2>2, NoHostBits
  <2>5. Value(start) \in Nat \cup {Nil} /\ Value(end) \in Nat \cup {Nil} /\ ToInt(net) \in Nat
    BY <2>1, Bound DEF Value
  <2>6. conf \in IPAMConfig(Nat)
    BY <2>3, <2>5 DEF conf, IPAMConfig
  <2>7. conf.ip % conf.size = 0
    BY <2>4 DEF conf
  <2>8. Nil \notin Nat
    BY BytesAssumption
  <2> HIDE DEF conf
  <2> QED BY <2>6, <2>7, <2>8, AcceptedRangesAreSound
<1>2. AcceptedRangeIsSound /\ [Next]_vars => AcceptedRangeIsSound'
  <2> SUFFICES ASSUME AcceptedRangeIsSound, [Next]_vars PROVE AcceptedRangeIsSound'
    OBVIOUS
  <2>1. net' = net /\ size' = size /\ start' = start /\ end' = end
    BY DEF Next, vars
  <2> QED BY <2>1 DEF AcceptedRangeIsSound, conf, Masked, HostSpan
<1> QED BY <1>1, <1>2, PTL DEF Spec

-----------------------------------------------------------------------------
(* Sequences that are put together                                         *)

LEMMA BuiltSteps ==
    ASSUME NEW S, NEW parts \in Seq(Seq(S))
    PROVE  /\ Built(parts) \in [0 .. Len(parts) -> Seq(S)] /\ Built(parts)[0] = <<>>
           /\ \A i \in 1 .. Len(parts) : Built(parts)[i] = Built(parts)[i - 1] \o parts[i]
<1> DEFINE N == Len(parts)
           T == Seq(S)
           body(g) == [n \in 0 .. N |-> IF n = 0 THEN <<>> ELSE g[n - 1] \o parts[n]]
           step == [i \in 1 .. N |-> [v \in T |-> v \o parts[i]]]
<1>1. N \in Nat /\ \A i \in 1 .. N : parts[i] \in T
  BY LenProperties, ElementOfSeq
<1>2. Built(parts) = CHOOSE g : g = body(g)
  BY Zenon DEF Built
<1>3. step \in [1 .. N -> [T -> T]]
  <2>1. ASSUME NEW i \in 1 .. N, NEW v \in T PROVE v \o parts[i] \in T
    BY <1>1, ConcatProperties
  <2> HIDE DEF N, T
  <2> QED BY <2>1
<1>4. <<>> \in T
  BY EmptySeq
<1>5. PICK g : RecursUpTo(g, N, T, <<>>, step)
  <2> HIDE DEF N, T, step
  <2> QED BY <1>1, <1>3, <1>4, RecursionUpTo
<1>6. g = body(g)
  <2> HIDE DEF N, T
  <2>1. ASSUME NEW i \in 0 .. N PROVE g[i] = IF i = 0 THEN <<>> ELSE g[i - 1] \o parts[i]
    <3>1. CASE i = 0
      BY <1>5, <3>1 DEF RecursUpTo
    <3>2. CASE i # 0
      <4>1. i \in 1 .. N /\ i - 1 \in 0 .. N
        BY <1>1, <3>2
      <4>2. g[i] = step[i][g[i - 1]] /\ g[i - 1] \in T
        BY <1>5, <4>1 DEF RecursUpTo
      <4> QED BY <3>2, <4>1, <4>2
    <3> QED BY <3>1, <3>2
  <2>2. g = [i \in 0 .. N |-> g[i]]
    BY <1>5 DEF RecursUpTo
  <2> QED BY <2>1, <2>2
<1> DEFINE f == Built(parts)
<1>7. f = body(f)
  <2> HIDE DEF body
  <2> QED BY <1>2, <1>6
<1>8. RecursUpTo(f, N, T, <<>>, step)
  <2> HIDE DEF N, T, f
  <2>1. f = [i \in 0 .. N |-> f[i]] /\ f[0] = <<>>
    BY <1>1, <1>7
  <2>2. ASSUME NEW i \in 1 .. N, f[i - 1] \in T PROVE f[i] = step[i][f[i - 1]]
    <3>1. i \in 0 .. N /\ i # 0
      BY <1>1
    <3>2. body(f)[i] = f[i - 1] \o parts[i]
      BY <3>1
    <3>3. step[i][f[i - 1]] = f[i - 1] \o parts[i]
      BY <2>2
    <3> QED BY <1>7, <3>2, <3>3
  <2> HIDE DEF step, body
  <2> QED BY <1>1, <1>3, <1>4, <2>1, <2>2, RecursiveFunction
<1>9. \A i \in 1 .. N : f[i - 1] \in T => step[i][f[i - 1]] = f[i - 1] \o parts[i]
  <2> HIDE DEF N, T, f
  <2> QED OBVIOUS
<1>10. \A i \in 1 .. N : f[i] = f[i - 1] \o parts[i]
  <2> HIDE DEF N, T, f, step
  <2>1. \A i \in 1 .. N : i - 1 \in 0 .. N
    BY <1>1
  <2> QED BY <1>8, <1>9, <2>1 DEF RecursUpTo
<1> QED BY <1>8, <1>10 DEF RecursUpTo

(* Part n follows the n - 1 parts before it, in the whole as well.         *)
PartAt(parts, n) ==
    /\ Len(Built(parts)[n - 1]) \in Nat /\ Len(parts[n]) \in Nat
    /\ Len(Built(parts)[n]) = Len(Built(parts)[n - 1]) + Len(parts[n])
    /\ Len(Built(parts)[n]) <= Len(Flat(parts))
    /\ \A k \in 1 .. Len(parts[n]) : Flat(parts)[Len(Built(parts)[n - 1]) + k] = parts[n][k]

LEMMA BuiltFrom ==
    ASSUME NEW S, NEW parts \in Seq(Seq(S)), NEW n \in 1 .. Len(parts)
    PROVE  PartAt(parts, n)
<1> DEFINE B == Built(parts)
           N == Len(parts)
           b == Len(B[n - 1])
           p == Len(parts[n])
<1>1. N \in Nat /\ \A i \in 1 .. N : parts[i] \in Seq(S)
  BY LenProperties, ElementOfSeq
<1>2. B \in [0 .. N -> Seq(S)] /\ \A i \in 1 .. N : B[i] = B[i - 1] \o parts[i]
  BY BuiltSteps
<1> HIDE DEF B, N
<1>3. ASSUME NEW i \in 1 .. N
      PROVE  /\ B[i] \in Seq(S) /\ B[i - 1] \in Seq(S) /\ Len(B[i - 1]) \in Nat /\ Len(parts[i]) \in Nat
             /\ Len(B[i]) = Len(B[i - 1]) + Len(parts[i])
             /\ \A k \in 1 .. Len(B[i]) :
                    B[i][k] = IF k <= Len(B[i - 1]) THEN B[i - 1][k] ELSE parts[i][k - Len(B[i - 1])]
  <2>1. i \in 0 .. N /\ i - 1 \in 0 .. N
    BY <1>1
  <2>2. B[i - 1] \in Seq(S) /\ parts[i] \in Seq(S) /\ B[i] = B[i - 1] \o parts[i] /\ B[i] \in Seq(S)
    BY <1>1, <1>2, <2>1
  <2>3. Len(B[i - 1]) \in Nat /\ Len(parts[i]) \in Nat
    BY <2>2, LenProperties
  <2> DEFINE x == B[i - 1]
             y == parts[i]
  <2>4. x \in Seq(S) /\ y \in Seq(S) /\ B[i] = x \o y
    BY <2>2
  <2> HIDE DEF x, y
  <2>5. /\ Len(x \o y) = Len(x) + Len(y)
        /\ \A k \in 1 .. Len(x) + Len(y) : (x \o y)[k] = IF k <= Len(x) THEN x[k] ELSE y[k - Len(x)]
    BY <2>4, ConcatProperties
  <2>6. /\ Len(B[i]) = Len(x) + Len(y)
        /\ \A k \in 1 .. Len(B[i]) : B[i][k] = IF k <= Len(x) THEN x[k] ELSE y[k - Len(x)]
    BY <2>4, <2>5, Zenon
  <2> QED BY <2>2, <2>3, <2>6 DEF x, y
<1>4. n \in 1 .. N
  BY DEF N
<1>5. b \in Nat /\ p \in Nat /\ Len(B[n]) = b + p
  BY <1>3, <1>4
<1> HIDE DEF b, p
<1> DEFINE P(m) == B[m] \in Seq(S) /\ b + p <= Len(B[m]) /\ \A k \in 1 .. p : B[m][b + k] = parts[n][k]
           R == {m \in 0 .. N : m >= n => P(m)}
<1>6. P(n)
  <2>1. B[n] \in Seq(S) /\ b + p <= Len(B[n])
    <3>1. B[n] \in Seq(S)
      BY <1>3, <1>4
    <3> QED BY <1>5, <3>1
  <2>2. ASSUME NEW k \in 1 .. p PROVE B[n][b + k] = parts[n][k]
    <3>1. b + k \in 1 .. Len(B[n]) /\ ~ (b + k <= b) /\ (b + k) - b = k
      BY <1>5
    <3> QED BY <1>3, <1>4, <3>1 DEF b
  <2> QED BY <2>1, <2>2
<1>7. 0 \in R
  BY <1>1, <1>4
<1>8. ASSUME NEW m \in 0 .. N - 1, m \in R PROVE m + 1 \in R
  <2>0. m + 1 \in 0 .. N /\ m + 1 \in 1 .. N /\ (m + 1) - 1 = m
    BY <1>1
  <2>1. CASE m + 1 = n
    BY <1>6, <2>0, <2>1
  <2>2. CASE m + 1 < n
    BY <1>4, <2>0, <2>2
  <2>3. CASE m >= n
    <3>1. P(m)
      BY <1>8, <2>3
    <3>2. /\ B[m + 1] \in Seq(S) /\ Len(B[m]) \in Nat /\ Len(parts[m + 1]) \in Nat
          /\ Len(B[m + 1]) = Len(B[m]) + Len(parts[m + 1])
          /\ \A k \in 1 .. Len(B[m + 1]) : k <= Len(B[m]) => B[m + 1][k] = B[m][k]
      BY <1>3, <2>0
    <3> DEFINE x == Len(B[m])
               y == Len(B[m + 1])
    <3>6. x \in Nat /\ y \in Nat /\ x <= y /\ b + p <= x
      <4>1. b + p <= Len(B[m])
        BY <3>1
      <4>2. Len(B[m + 1]) = Len(B[m]) + Len(parts[m + 1]) /\ Len(B[m]) \in Nat /\ Len(parts[m + 1]) \in Nat
        BY <3>2
      <4> DEFINE z == Len(parts[m + 1])
      <4>3. y = x + z /\ x \in Nat /\ z \in Nat /\ b + p <= x
        BY <4>1, <4>2
      <4> HIDE DEF x, y, z
      <4> QED BY <4>3
    <3>3. b + p <= Len(B[m + 1])
      <4>1. b + p <= y
        <5> HIDE DEF x, y
        <5> QED BY <1>5, <3>6
      <4> QED BY <4>1
    <3>4. ASSUME NEW k \in 1 .. p PROVE B[m + 1][b + k] = parts[n][k]
      <4>1. b + k \in 1 .. y /\ b + k <= x
        <5> HIDE DEF x, y
        <5> QED BY <1>5, <3>6
      <4>2. B[m + 1][b + k] = B[m][b + k]
        BY <3>2, <4>1
      <4>3. B[m][b + k] = parts[n][k]
        BY <3>1
      <4> QED BY <4>2, <4>3
    <3>5. P(m + 1)
      BY <3>2, <3>3, <3>4
    <3> HIDE DEF P
    <3> QED BY <2>0, <3>5
  <2> QED BY <1>4, <2>1, <2>2, <2>3
<1>9. N \in R /\ N >= n
  <2> HIDE DEF R
  <2>1. 0 .. N \subseteq R
    BY <1>1, <1>7, <1>8, InductionUpTo
  <2> QED BY <1>1, <1>4, <2>1
<1>10. P(N)
  BY <1>9
<1>11. B[N] = Flat(parts)
  BY DEF B, N, Flat
<1> QED BY <1>5, <1>10, <1>11 DEF b, p, B, PartAt

-----------------------------------------------------------------------------
(* The static route option                                                 *)

LEMMA OctetIsNat == \A x \in Octet : x \in Nat
BY DEF Octet

(* Four octets are a sequence.                                             *)
LEMMA FourNumbers == ASSUME NEW a \in [1 .. 4 -> Nat] PROVE a \in Seq(Nat)
BY SeqDef

LEMMA FourOctets ==
    ASSUME NEW a \in [1 .. 4 -> Octet]
    PROVE  a \in Seq(Nat) /\ Len(a) = 4
<1>1. a \in [1 .. 4 -> Nat]
  BY DEF Octet
<1>2. a \in Seq(Nat)
  BY <1>1, FourNumbers
<1>3. DOMAIN a = 1 .. 4 /\ DOMAIN a = 1 .. Len(a) /\ Len(a) \in Nat
  BY <1>1, <1>2, LenProperties
<1>4. Len(a) = 4
  BY <1>3
<1> QED BY <1>2, <1>4

(* The first bytes of an option.                                           *)
LEMMA Cut ==
    ASSUME NEW s \in Seq(Nat), NEW c \in 0 .. Len(s)
    PROVE  /\ SubSeq(s, 1, c) \in Seq(Nat) /\ Len(SubSeq(s, 1, c)) = c
           /\ \A k \in 1 .. c : SubSeq(s, 1, c)[k] = s[k]
<1>1. Len(s) \in Nat /\ \A k \in 1 .. c : s[k] \in Nat
  BY LenProperties, ElementOfSeq
<1>2. 1 \in Int /\ c \in Int
  BY <1>1
<1>3. /\ SubSeq(s, 1, c) \in Seq(Nat)
      /\ Len(SubSeq(s, 1, c)) = IF 1 <= c THEN c - 1 + 1 ELSE 0
      /\ \A k \in 1 .. c - 1 + 1 : SubSeq(s, 1, c)[k] = s[1 + k - 1]
  BY <1>1, <1>2, SubSeqProperties
<1>4. c - 1 + 1 = c /\ (~ (1 <= c) => c = 0) /\ \A k \in 1 .. c : 1 + k - 1 = k
  BY <1>1
<1> QED BY <1>3, <1>4

(* Four bytes of an option that are those of an address.                   *)
LEMMA Window ==
    ASSUME NEW opt \in Seq(Nat), NEW p \in Nat, p + 4 <= Len(opt), NEW a \in [1 .. 4 -> Octet],
           \A k \in 1 .. 4 : opt[p + k] = a[k]
    PROVE  SubSeq(opt, p + 1, p + 4) = a
<1>1. Len(opt) \in Nat /\ \A k \in 1 .. Len(opt) : opt[k] \in Nat
  BY LenProperties, ElementOfSeq
<1> DEFINE m == p + 1
           n == p + 4
           s == SubSeq(opt, m, n)
<1>2. m \in Int /\ n \in Int /\ m <= n /\ n - m + 1 = 4 /\ \A i \in m .. n : opt[i] \in Nat
  BY <1>1
<1>3. \A k \in 1 .. 4 : m + k - 1 = p + k
  OBVIOUS
<1> HIDE DEF m, n
<1>4. s \in Seq(Nat) /\ Len(s) = n - m + 1 /\ \A i \in 1 .. n - m + 1 : s[i] = opt[m + i - 1]
  BY SMTT(30), <1>2, SubSeqProperties
<1>5. Len(s) = 4 /\ \A k \in 1 .. 4 : s[k] = a[k]
  BY <1>2, <1>3, <1>4
<1>6. a \in Seq(Nat) /\ Len(a) = 4
  BY FourOctets
<1> HIDE DEF s
<1>7. s = a
  BY <1>4, <1>5, <1>6, SeqEqual
<1> QED BY <1>7 DEF s, m, n

(* The encoding of a static route.                                         *)
LEMMA StaticPart ==
    ASSUME NEW rs \in Seq(RouteRecord)
    PROVE  /\ StaticParts(rs) \in Seq(Seq(Nat)) /\ Len(StaticParts(rs)) = Len(rs)
           /\ \A i \in 1 .. Len(rs) :
                /\ Len(StaticParts(rs)[i]) = 8
                /\ \A k \in 1 .. 4 : /\ StaticParts(rs)[i][k] = rs[i].dst[k]
                                     /\ StaticParts(rs)[i][4 + k] = rs[i].gw[k]
<1> DEFINE parts == StaticParts(rs)
<1>1. Len(rs) \in Nat /\ \A i \in 1 .. Len(rs) : rs[i] \in RouteRecord
  BY LenProperties, ElementOfSeq
<1>2. ASSUME NEW i \in 1 .. Len(rs)
      PROVE  LET p == rs[i].dst \o rs[i].gw
             IN  /\ p \in Seq(Nat) /\ Len(p) = 8
                 /\ \A k \in 1 .. 4 : p[k] = rs[i].dst[k] /\ p[4 + k] = rs[i].gw[k]
  <2> DEFINE d == rs[i].dst
             g == rs[i].gw
             p == d \o g
  <2>1. d \in Seq(Nat) /\ Len(d) = 4 /\ g \in Seq(Nat) /\ Len(g) = 4
    BY <1>1, FourOctets DEF RouteRecord
  <2> HIDE DEF d, g
  <2>2. p \in Seq(Nat) /\ Len(p) = Len(d) + Len(g)
        /\ \A k \in 1 .. Len(d) + Len(g) : p[k] = IF k <= Len(d) THEN d[k] ELSE g[k - Len(d)]
    BY <2>1, ConcatProperties
  <2>3. Len(p) = 8 /\ \A k \in 1 .. 8 : p[k] = IF k <= 4 THEN d[k] ELSE g[k - 4]
    <3> HIDE DEF p
    <3> QED BY <2>1, <2>2
  <2>4. \A k \in 1 .. 4 : /\ k \in 1 .. 8 /\ k <= 4 /\ 4 + k \in 1 .. 8 /\ ~ (4 + k <= 4)
                          /\ (4 + k) - 4 = k
    OBVIOUS
  <2>5. \A k \in 1 .. 4 : p[k] = d[k] /\ p[4 + k] = g[k]
    <3> HIDE DEF p
    <3> QED BY <2>3, <2>4
  <2> QED BY <2>2, <2>3, <2>5 DEF d, g
<1>3. parts = [i \in 1 .. Len(rs) |-> rs[i].dst \o rs[i].gw]
  BY DEF StaticParts
<1>4. parts \in [1 .. Len(rs) -> Seq(Nat)]
  BY <1>2, <1>3
<1>5. parts \in Seq(Seq(Nat))
  <2> HIDE DEF parts
  <2> QED BY <1>1, <1>4, SeqDef
<1>6. Len(parts) = Len(rs)
  <2> HIDE DEF parts
  <2>1. DOMAIN parts = 1 .. Len(rs) /\ DOMAIN parts = 1 .. Len(parts) /\ Len(parts) \in Nat
    BY <1>4, <1>5, LenProperties
  <2> QED BY <1>1, <2>1
<1>7. ASSUME NEW i \in 1 .. Len(rs)
      PROVE  /\ Len(parts[i]) = 8
             /\ \A k \in 1 .. 4 : parts[i][k] = rs[i].dst[k] /\ parts[i][4 + k] = rs[i].gw[k]
  <2> DEFINE p == rs[i].dst \o rs[i].gw
  <2>1. parts[i] = p
    BY <1>3
  <2>2. Len(p) = 8 /\ \A k \in 1 .. 4 : p[k] = rs[i].dst[k] /\ p[4 + k] = rs[i].gw[k]
    BY <1>2
  <2> HIDE DEF parts, p
  <2> QED BY <2>1, <2>2
<1> QED BY <1>5, <1>6, <1>7

(* The loop of parseRoutes takes its steps.                                *)
StaticLoop(loop, opt) ==
    /\ loop[0] = [at |-> 0, routes |-> <<>>]
    /\ \A i \in 1 .. Len(opt) : loop[i] = NextRoute(opt, loop[i - 1])
    /\ ParseRoutes(opt) = loop[Len(opt)].routes

LEMMA StaticLoopOK ==
    ASSUME NEW opt \in Seq(Nat)
    PROVE  \E loop : StaticLoop(loop, opt)
<1> DEFINE N == Len(opt)
           R == [dst : Seq(Nat), width : Nat, gw : Seq(Nat)]
           T == [at : Nat, routes : Seq(R)]
           d0 == [at |-> 0, routes |-> <<>>]
           body(g) == [n \in 0 .. N |-> IF n = 0 THEN d0 ELSE NextRoute(opt, g[n - 1])]
           step == [i \in 1 .. N |-> [s \in T |-> NextRoute(opt, s)]]
           loop == CHOOSE g : g = body(g)
<1>1. N \in Nat /\ \A k \in 1 .. N : opt[k] \in Nat
  BY LenProperties, ElementOfSeq
<1>2. ParseRoutes(opt) = loop[N].routes
  BY Zenon DEF ParseRoutes
<1>3. ASSUME NEW s \in T PROVE NextRoute(opt, s) \in T
  <2>1. CASE N - s.at < 8
    BY <2>1 DEF NextRoute
  <2>2. CASE ~ (N - s.at < 8)
    <3> DEFINE sn == SubSeq(opt, s.at + 1, s.at + 4)
               gw == SubSeq(opt, s.at + 5, s.at + 8)
    <3>1. s.at \in Nat /\ s.at + 8 <= N /\ s.routes \in Seq(R)
      BY <1>1, <2>2
    <3>2. sn \in Seq(Nat)
      <4>1. s.at + 1 \in Int /\ s.at + 4 \in Int /\ \A k \in s.at + 1 .. s.at + 4 : opt[k] \in Nat
        BY SMTT(30), <1>1, <3>1
      <4> QED BY <4>1, SubSeqProperties
    <3>3. gw \in Seq(Nat)
      <4>1. s.at + 5 \in Int /\ s.at + 8 \in Int /\ \A k \in s.at + 5 .. s.at + 8 : opt[k] \in Nat
        BY <1>1, <3>1
      <4> QED BY <4>1, SubSeqProperties
    <3>4. Route(sn, DefaultMask(sn), gw) \in R
      BY <3>2, <3>3 DEF Route, DefaultMask
    <3>5. NextRoute(opt, s) = [at |-> s.at + 8, routes |-> Append(s.routes, Route(sn, DefaultMask(sn), gw))]
      BY <2>2 DEF NextRoute
    <3> HIDE DEF sn, gw, R
    <3>6. Append(s.routes, Route(sn, DefaultMask(sn), gw)) \in Seq(R)
      BY <3>1, <3>4, AppendProperties
    <3> QED BY <3>1, <3>5, <3>6
  <2> QED BY <2>1, <2>2
<1>4. d0 \in T
  BY EmptySeq
<1> HIDE DEF N, T, d0
<1>5. step \in [1 .. N -> [T -> T]]
  BY <1>3
<1>6. PICK g : RecursUpTo(g, N, T, d0, step)
  <2> HIDE DEF step
  <2> QED BY <1>1, <1>4, <1>5, RecursionUpTo
<1>7. g = body(g)
  <2>1. ASSUME NEW i \in 0 .. N PROVE g[i] = IF i = 0 THEN d0 ELSE NextRoute(opt, g[i - 1])
    <3>1. CASE i = 0
      BY <1>6, <3>1 DEF RecursUpTo
    <3>2. CASE i # 0
      <4>1. i \in 1 .. N /\ i - 1 \in 0 .. N
        BY <1>1, <3>2
      <4>2. g[i] = step[i][g[i - 1]] /\ g[i - 1] \in T
        BY <1>6, <4>1 DEF RecursUpTo
      <4> QED BY <3>2, <4>1, <4>2
    <3> QED BY <3>1, <3>2
  <2>2. g = [i \in 0 .. N |-> g[i]]
    BY <1>6 DEF RecursUpTo
  <2> QED BY <2>1, <2>2
<1>8. loop = body(loop)
  <2> HIDE DEF body
  <2> QED BY <1>7
<1> HIDE DEF loop
<1>9. loop[0] = d0 /\ \A i \in 1 .. N : loop[i] = NextRoute(opt, loop[i - 1])
  BY <1>1, <1>8
<1>10. StaticLoop(loop, opt)
  BY <1>2, <1>9 DEF StaticLoop, N, d0
<1> QED BY <1>10

(* One element more of a sequence.                                         *)
LEMMA OneMore ==
    ASSUME NEW S, NEW s \in Seq(S), NEW i \in Nat, i + 1 <= Len(s)
    PROVE  Append(SubSeq(s, 1, i), s[i + 1]) = SubSeq(s, 1, i + 1)
<1>1. Len(s) \in Nat /\ \A k \in 1 .. Len(s) : s[k] \in S
  BY LenProperties, ElementOfSeq
<1>2. 1 \in 1 .. Len(s) /\ i + 1 \in 1 .. Len(s) /\ (i + 1) - 1 = i
  BY <1>1
<1>3. SubSeq(s, 1, i + 1) = SubSeq(s, 1, (i + 1) - 1) \o <<s[i + 1]>>
  BY <1>2, SubSeqRecursiveSecond
<1>4. SubSeq(s, 1, i) \in Seq(S) /\ s[i + 1] \in S
  <2>1. \A k \in 1 .. i : s[k] \in S
    BY <1>1
  <2>2. 1 \in Int /\ i \in Int
    OBVIOUS
  <2> QED BY <1>1, <1>2, <2>1, <2>2, SubSeqProperties
<1>5. Append(SubSeq(s, 1, i), s[i + 1]) = SubSeq(s, 1, i) \o <<s[i + 1]>>
  BY <1>4, AppendIsConcat
<1> QED BY <1>2, <1>3, <1>5

(* The first elements of a sequence.                                       *)
LEMMA FirstOnes ==
    ASSUME NEW S, NEW s \in Seq(S), NEW n \in 0 .. Len(s)
    PROVE  Len(SubSeq(s, 1, n)) = n /\ \A i \in 1 .. n : SubSeq(s, 1, n)[i] = s[i]
<1>1. Len(s) \in Nat /\ \A k \in 1 .. Len(s) : s[k] \in S
  BY LenProperties, ElementOfSeq
<1>2. 1 \in Int /\ n \in Int /\ \A k \in 1 .. n : s[k] \in S
  BY <1>1
<1>3. /\ Len(SubSeq(s, 1, n)) = IF 1 <= n THEN n - 1 + 1 ELSE 0
      /\ \A k \in 1 .. n - 1 + 1 : SubSeq(s, 1, n)[k] = s[1 + k - 1]
  BY <1>2, SubSeqProperties
<1>4. n - 1 + 1 = n /\ (~ (1 <= n) => n = 0) /\ \A k \in 1 .. n : 1 + k - 1 = k
  BY <1>1
<1> QED BY <1>3, <1>4

(* parseRoutes finds the routes that are whole.                            *)
LEMMA StaticParsed ==
    ASSUME NEW rs \in Seq(RouteRecord),
           \A i \in 1 .. Len(rs) : rs[i].width = DefaultMask(rs[i].dst),
           NEW cut \in 0 .. Len(Flat(StaticParts(rs))), NEW n \in 0 .. Len(rs),
           Len(Built(StaticParts(rs))[n]) <= cut,
           n < Len(rs) => Len(Built(StaticParts(rs))[n + 1]) > cut
    PROVE  ParseRoutes(SubSeq(Flat(StaticParts(rs)), 1, cut)) = SubSeq(rs, 1, n)
<1> DEFINE parts == StaticParts(rs)
           N == Len(rs)
           B == Built(parts)
           F == Flat(parts)
           opt == SubSeq(F, 1, cut)
<1>1. N \in Nat /\ \A i \in 1 .. N : rs[i] \in RouteRecord
  BY LenProperties, ElementOfSeq
<1>2. /\ parts \in Seq(Seq(Nat)) /\ Len(parts) = N
      /\ \A i \in 1 .. N : /\ Len(parts[i]) = 8
                           /\ \A k \in 1 .. 4 : /\ parts[i][k] = rs[i].dst[k]
                                                /\ parts[i][4 + k] = rs[i].gw[k]
  BY StaticPart
<1>3. B \in [0 .. N -> Seq(Nat)] /\ B[0] = <<>> /\ F = B[N]
  <2> HIDE DEF parts
  <2> QED BY <1>2, BuiltSteps DEF Flat
<1>4. ASSUME NEW i \in 1 .. N
      PROVE  /\ Len(B[i - 1]) \in Nat /\ Len(B[i]) = Len(B[i - 1]) + 8
             /\ \A k \in 1 .. 8 : F[Len(B[i - 1]) + k] = parts[i][k]
  <2> HIDE DEF parts
  <2>1. i \in 1 .. Len(parts) /\ Len(parts[i]) = 8
    BY <1>2
  <2>2. /\ Len(B[i - 1]) \in Nat /\ Len(B[i]) = Len(B[i - 1]) + Len(parts[i])
        /\ \A k \in 1 .. Len(parts[i]) : F[Len(B[i - 1]) + k] = parts[i][k]
    <3>1. PartAt(parts, i)
      BY <1>2, <2>1, BuiltFrom, Zenon
    <3> QED BY <3>1 DEF PartAt
  <2> QED BY <2>1, <2>2
<1> HIDE DEF parts, N, B, F
<1>5. \A i \in 0 .. N : Len(B[i]) = 8 * i
  <2> DEFINE S == {i \in 0 .. N : Len(B[i]) = 8 * i}
  <2>1. 0 \in S
    BY <1>1, <1>3, EmptySeq
  <2>2. ASSUME NEW i \in 0 .. N - 1, i \in S PROVE i + 1 \in S
    <3>1. i + 1 \in 1 .. N /\ (i + 1) - 1 = i /\ i + 1 \in 0 .. N
      BY <1>1
    <3>2. Len(B[i + 1]) = Len(B[i]) + 8
      BY <1>4, <3>1
    <3>3. Len(B[i]) = 8 * i
      BY <2>2
    <3>4. Len(B[i + 1]) = 8 * (i + 1)
      BY <3>2, <3>3
    <3> QED BY <3>1, <3>4
  <2>3. 0 .. N \subseteq S
    <3> HIDE DEF S
    <3> QED BY <1>1, <2>1, <2>2, InductionUpTo
  <2> QED BY <2>3
<1>6. n \in 0 .. N /\ n \in Nat /\ 8 * n <= cut /\ cut - 8 * n < 8 /\ cut \in Nat /\ cut <= Len(F)
      /\ F \in Seq(Nat) /\ Len(F) = 8 * N /\ cut \in 0 .. Len(F)
  <2>1. n \in 0 .. N /\ n \in Nat /\ N \in 0 .. N
    BY <1>1 DEF N
  <2>2. F \in Seq(Nat) /\ Len(F) = 8 * N /\ Len(B[n]) = 8 * n
    BY <1>3, <1>5, <2>1
  <2>3. cut \in 0 .. Len(F) /\ Len(B[n]) <= cut /\ (n < N => Len(B[n + 1]) > cut)
    BY DEF F, B, N, parts
  <2>4. n < N => Len(B[n + 1]) = 8 * (n + 1)
    BY <1>1, <1>5, <2>1
  <2> QED BY <1>1, <2>1, <2>2, <2>3, <2>4
<1>7. opt \in Seq(Nat) /\ Len(opt) = cut /\ \A k \in 1 .. cut : opt[k] = F[k]
  BY <1>6, Cut
<1> HIDE DEF opt
<1>8. PICK loop : StaticLoop(loop, opt)
  BY <1>7, StaticLoopOK
<1>9. /\ loop[0] = [at |-> 0, routes |-> <<>>]
      /\ \A i \in 1 .. cut : loop[i] = NextRoute(opt, loop[i - 1])
      /\ ParseRoutes(opt) = loop[cut].routes
  BY <1>7, <1>8 DEF StaticLoop
<1> DEFINE L(i) == [at |-> 8 * i, routes |-> SubSeq(rs, 1, i)]
           S == {i \in 0 .. cut : IF i <= n THEN loop[i] = L(i) ELSE loop[i] = L(n)}
<1>10. 0 \in S
  <2>1. SubSeq(rs, 1, 0) = <<>>
    BY SubSeqEmpty
  <2> QED BY <1>6, <1>9, <2>1
<1>11. ASSUME NEW i \in 0 .. cut - 1, i \in S PROVE i + 1 \in S
  <2>1. i + 1 \in 1 .. cut /\ (i + 1) - 1 = i /\ i + 1 \in 0 .. cut /\ i \in Nat
    BY <1>6
  <2>2. loop[i + 1] = NextRoute(opt, loop[i])
    BY <1>9, <2>1
  <2>3. CASE i < n
    <3>1. loop[i] = L(i) /\ i + 1 \in 1 .. N /\ i + 1 <= n /\ 8 * i + 8 <= cut
      BY <1>1, <1>6, <1>11, <2>1, <2>3
    <3> DEFINE r == rs[i + 1]
               p == 8 * i
    <3>2. r \in RouteRecord /\ r.dst \in [1 .. 4 -> Octet] /\ r.gw \in [1 .. 4 -> Octet]
          /\ r.width = DefaultMask(r.dst) /\ r = [dst |-> r.dst, width |-> r.width, gw |-> r.gw]
      <4>1. r \in RouteRecord
        BY <1>1, <3>1
      <4>2. r.width = DefaultMask(r.dst)
        BY <3>1 DEF N
      <4> QED BY <4>1, <4>2 DEF RouteRecord
    <3>3. \A k \in 1 .. 8 : opt[p + k] = parts[i + 1][k]
      <4>1. Len(B[i]) = p
        BY <1>1, <1>5, <3>1
      <4>2. \A k \in 1 .. 8 : F[p + k] = parts[i + 1][k]
        <5>1. \A k \in 1 .. 8 : F[Len(B[(i + 1) - 1]) + k] = parts[i + 1][k]
          BY <1>4, <3>1
        <5> HIDE DEF p
        <5> QED BY <2>1, <4>1, <5>1
      <4>3. \A k \in 1 .. 8 : p + k \in 1 .. cut
        <5>1. p \in Nat /\ p + 8 <= cut
          BY <2>1, <3>1
        <5> HIDE DEF p
        <5> QED BY <1>6, <5>1
      <4> QED BY <1>7, <4>2, <4>3
    <3>4. \A k \in 1 .. 4 : opt[p + k] = r.dst[k] /\ opt[(p + 4) + k] = r.gw[k]
      <4>1. \A k \in 1 .. 4 : k \in 1 .. 8 /\ 4 + k \in 1 .. 8 /\ (p + 4) + k = p + (4 + k)
        BY <2>1
      <4>2. \A k \in 1 .. 4 : parts[i + 1][k] = r.dst[k] /\ parts[i + 1][4 + k] = r.gw[k]
        BY <1>2, <3>1
      <4> HIDE DEF p, r
      <4> QED BY <3>3, <4>1, <4>2
    <3>5. p \in Nat /\ p + 4 \in Nat /\ (p + 4) + 4 <= Len(opt) /\ p + 4 <= Len(opt)
          /\ (p + 4) + 1 = p + 5 /\ (p + 4) + 4 = p + 8 /\ p + 8 = 8 * (i + 1) /\ ~ (Len(opt) - p < 8)
      BY <1>6, <1>7, <2>1, <3>1
    <3>6. L(i).at = p /\ L(i).routes = SubSeq(rs, 1, i)
      OBVIOUS
    <3> HIDE DEF p, r, L
    <3>7. SubSeq(opt, p + 1, p + 4) = r.dst
      BY <1>7, <3>2, <3>4, <3>5, Window
    <3>8. SubSeq(opt, p + 5, p + 8) = r.gw
      <4>1. SubSeq(opt, (p + 4) + 1, (p + 4) + 4) = r.gw
        BY <1>7, <3>2, <3>4, <3>5, Window
      <4> QED BY <3>5, <4>1
    <3>9. Route(r.dst, DefaultMask(r.dst), r.gw) = r
      BY <3>2 DEF Route
    <3>10. loop[i + 1] = [at |-> p + 8, routes |-> Append(SubSeq(rs, 1, i), r)]
      BY <2>2, <3>1, <3>5, <3>6, <3>7, <3>8, <3>9 DEF NextRoute
    <3>11. Append(SubSeq(rs, 1, i), r) = SubSeq(rs, 1, i + 1)
      <4>1. i + 1 <= Len(rs)
        BY <1>1, <3>1 DEF N
      <4> QED BY <2>1, <4>1, OneMore DEF r
    <3>12. loop[i + 1] = L(i + 1)
      BY <3>5, <3>10, <3>11 DEF L
    <3> QED BY <2>1, <3>1, <3>12
  <2>4. CASE ~ (i < n)
    <3>1. loop[i] = L(n) /\ ~ (i + 1 <= n)
      <4>1. i = n \/ ~ (i <= n)
        BY <1>6, <2>1, <2>4
      <4>2. ~ (i + 1 <= n)
        BY <1>6, <2>1, <2>4
      <4> HIDE DEF L
      <4> QED BY <1>11, <4>1, <4>2
    <3>2. L(n).at = 8 * n
      OBVIOUS
    <3> HIDE DEF L
    <3>3. Len(opt) - L(n).at < 8
      BY <1>6, <1>7, <3>2
    <3>4. NextRoute(opt, L(n)) = L(n)
      BY <3>3 DEF NextRoute
    <3> QED BY <2>1, <2>2, <3>1, <3>4
  <2> QED BY <2>3, <2>4
<1>12. cut \in S
  <2> HIDE DEF S
  <2>1. 0 .. cut \subseteq S
    BY <1>6, <1>10, <1>11, InductionUpTo
  <2> QED BY <1>6, <2>1
<1>13. loop[cut] = L(n)
  <2>1. cut <= n => cut = n
    BY <1>6
  <2> HIDE DEF L
  <2> QED BY <1>12, <2>1
<1> QED BY <1>9, <1>13 DEF opt, F, parts

-----------------------------------------------------------------------------
(* The classless route option                                              *)

(* The octets that the server writes are those that the client expects.    *)
LEMMA HoldingOK ==
    ASSUME NEW w \in Octet
    PROVE  Holding(w) \in 0 .. 4 /\ Significant(w) \in Nat /\ (w <= 32 => Significant(w) = Holding(w))
<1> DEFINE H(n) == (8 * n >= w \/ n = 4) /\ 8 * (n - 1) < w
<1>1. w \in 0 .. 255
  BY DEF Octet
<1>2. \E n \in 0 .. 4 : H(n)
  <2>1. CASE w = 0
    <3>1. H(0)
      BY <2>1
    <3> QED BY <3>1
  <2>2. CASE w \in 1 .. 8
    <3>1. H(1)
      BY <2>2
    <3> QED BY <3>1
  <2>3. CASE w \in 9 .. 16
    <3>1. H(2)
      BY <2>3
    <3> QED BY <3>1
  <2>4. CASE w \in 17 .. 24
    <3>1. H(3)
      BY <2>4
    <3> QED BY <3>1
  <2>5. CASE w \in 25 .. 255
    <3>1. H(4)
      BY <2>5
    <3> QED BY <3>1
  <2> QED BY <1>1, <2>1, <2>2, <2>3, <2>4, <2>5
<1>3. Holding(w) = CHOOSE n \in 0 .. 4 : H(n)
  BY DEF Holding
<1>4. Holding(w) \in 0 .. 4 /\ H(Holding(w))
  <2> HIDE DEF H
  <2> QED BY <1>2, <1>3
<1>5. Significant(w) \in Nat
  BY <1>1 DEF Significant
<1>6. ASSUME w <= 32 PROVE Significant(w) = Holding(w)
  <2>1. H(Significant(w)) /\ Significant(w) \in 0 .. 4
    BY <1>1, <1>6 DEF Significant
  <2>2. ASSUME NEW m \in 0 .. 4, NEW n \in 0 .. 4, H(m), H(n) PROVE m = n
    BY <1>1, <1>6, <2>2
  <2> HIDE DEF H
  <2> QED BY <1>4, <2>1, <2>2
<1> QED BY <1>4, <1>5, <1>6

(* The encoding of a classless route.                                      *)
ClasslessBytes(part, r) ==
    LET h == Holding(r.width)
    IN  /\ part \in Seq(Nat) /\ Len(part) = h + 5 /\ part[1] = r.width
        /\ \A k \in 1 .. h : part[1 + k] = r.dst[k]
        /\ \A k \in 1 .. 4 : part[(1 + h) + k] = r.gw[k]

LEMMA ClasslessPart ==
    ASSUME NEW rs \in Seq(RouteRecord)
    PROVE  /\ ClasslessParts(rs) \in Seq(Seq(Nat)) /\ Len(ClasslessParts(rs)) = Len(rs)
           /\ \A i \in 1 .. Len(rs) : ClasslessBytes(ClasslessParts(rs)[i], rs[i])
<1> DEFINE parts == ClasslessParts(rs)
           part(i) == <<rs[i].width>> \o SubSeq(rs[i].dst, 1, Holding(rs[i].width)) \o rs[i].gw
<1>1. Len(rs) \in Nat /\ \A i \in 1 .. Len(rs) : rs[i] \in RouteRecord
  BY LenProperties, ElementOfSeq
<1>2. ASSUME NEW i \in 1 .. Len(rs) PROVE ClasslessBytes(part(i), rs[i])
  <2> DEFINE r == rs[i]
             h == Holding(r.width)
             w == <<r.width>>
             d == SubSeq(r.dst, 1, h)
             g == r.gw
             a == w \o d
             p == a \o g
  <2>1. r \in RouteRecord /\ r.dst \in Seq(Nat) /\ Len(r.dst) = 4 /\ g \in Seq(Nat) /\ Len(g) = 4
        /\ r.width \in Octet /\ r.width \in Nat
    <3>1. r \in RouteRecord
      BY <1>1
    <3>2. r.dst \in [1 .. 4 -> Octet] /\ g \in [1 .. 4 -> Octet] /\ r.width \in Octet
      BY <3>1 DEF RouteRecord
    <3> HIDE DEF r, g
    <3>3. r.width \in Nat
      BY <3>2, OctetIsNat
    <3> QED BY <3>1, <3>2, <3>3, FourOctets
  <2>2. h \in 0 .. 4 /\ h \in Nat
    BY <2>1, HoldingOK
  <2>3. d \in Seq(Nat) /\ Len(d) = h /\ \A k \in 1 .. h : d[k] = r.dst[k]
    <3> HIDE DEF h
    <3> QED BY <2>1, <2>2, Cut
  <2>4. w \in Seq(Nat) /\ Len(w) = 1 /\ w[1] = r.width
    BY <2>1
  <2> HIDE DEF r, h, w, d, g
  <2>5. a \in Seq(Nat) /\ Len(a) = Len(w) + Len(d)
        /\ \A k \in 1 .. Len(w) + Len(d) : a[k] = IF k <= Len(w) THEN w[k] ELSE d[k - Len(w)]
    BY <2>3, <2>4, ConcatProperties
  <2> HIDE DEF a
  <2>6. p \in Seq(Nat) /\ Len(p) = Len(a) + Len(g)
        /\ \A k \in 1 .. Len(a) + Len(g) : p[k] = IF k <= Len(a) THEN a[k] ELSE g[k - Len(a)]
    <3>1. a \in Seq(Nat) /\ g \in Seq(Nat)
      BY <2>1, <2>5
    <3> QED BY <3>1, ConcatProperties
  <2> HIDE DEF p
  <2>7. Len(a) = 1 + h /\ Len(p) = h + 5
        /\ \A k \in 1 .. 1 + h : a[k] = IF k <= 1 THEN w[k] ELSE d[k - 1]
    BY <2>1, <2>2, <2>3, <2>4, <2>5, <2>6
  <2>8. \A k \in 1 .. h + 5 : p[k] = IF k <= 1 + h THEN a[k] ELSE g[k - (1 + h)]
    BY <2>1, <2>2, <2>6, <2>7
  <2>9. p[1] = r.width
    BY <2>2, <2>4, <2>7, <2>8
  <2>10. ASSUME NEW k \in 1 .. h PROVE p[1 + k] = r.dst[k]
    <3>1. 1 + k \in 1 .. h + 5 /\ 1 + k <= 1 + h /\ 1 + k \in 1 .. 1 + h /\ ~ (1 + k <= 1) /\ (1 + k) - 1 = k
      BY <2>2
    <3> QED BY <2>3, <2>7, <2>8, <3>1
  <2>11. ASSUME NEW k \in 1 .. 4 PROVE p[(1 + h) + k] = g[k]
    <3>1. (1 + h) + k \in 1 .. h + 5 /\ ~ ((1 + h) + k <= 1 + h) /\ ((1 + h) + k) - (1 + h) = k
      BY <2>2
    <3> QED BY <2>8, <3>1
  <2>12. ClasslessBytes(p, r)
    BY <2>6, <2>7, <2>9, <2>10, <2>11 DEF ClasslessBytes, h, g
  <2> QED BY <2>12 DEF p, a, w, d, g, h, r
<1>3. parts = [i \in 1 .. Len(rs) |-> part(i)]
  BY DEF ClasslessParts
<1>4. \A i \in 1 .. Len(rs) : part(i) \in Seq(Nat)
  <2> HIDE DEF part
  <2> QED BY <1>2 DEF ClasslessBytes
<1>5. parts \in [1 .. Len(rs) -> Seq(Nat)]
  <2> HIDE DEF part
  <2> QED BY <1>3, <1>4
<1>6. parts \in Seq(Seq(Nat))
  <2> HIDE DEF parts
  <2> QED BY <1>1, <1>5, SeqDef
<1>7. Len(parts) = Len(rs)
  <2> HIDE DEF parts
  <2>1. DOMAIN parts = 1 .. Len(rs) /\ DOMAIN parts = 1 .. Len(parts) /\ Len(parts) \in Nat
    BY <1>5, <1>6, LenProperties
  <2> QED BY <1>1, <2>1
<1>8. ASSUME NEW i \in 1 .. Len(rs) PROVE ClasslessBytes(parts[i], rs[i])
  <2> HIDE DEF part
  <2>1. parts[i] = part(i)
    BY <1>3
  <2> QED BY <1>2, <2>1
<1> QED BY <1>6, <1>7, <1>8

(* The loop of parseCIDRRoutes takes its steps.                            *)
ClasslessLoop(loop, opt) ==
    /\ loop[0] = [ok |-> TRUE, at |-> 0, routes |-> <<>>]
    /\ \A i \in 1 .. Len(opt) : loop[i] = NextCIDRRoute(opt, loop[i - 1])
    /\ ParseCIDRRoutes(opt) = IF loop[Len(opt)].ok THEN loop[Len(opt)].routes ELSE <<>>

LEMMA ClasslessLoopOK ==
    ASSUME NEW opt \in Seq(Nat)
    PROVE  \E loop : ClasslessLoop(loop, opt)
<1> DEFINE N == Len(opt)
           R == [dst : Seq(Nat), width : Nat, gw : Seq(Nat)]
           T == [ok : BOOLEAN, at : Nat, routes : Seq(R)]
           d0 == [ok |-> TRUE, at |-> 0, routes |-> <<>>]
           body(g) == [n \in 0 .. N |-> IF n = 0 THEN d0 ELSE NextCIDRRoute(opt, g[n - 1])]
           step == [i \in 1 .. N |-> [s \in T |-> NextCIDRRoute(opt, s)]]
           loop == CHOOSE g : g = body(g)
<1>1. N \in Nat /\ \A k \in 1 .. N : opt[k] \in Nat
  BY LenProperties, ElementOfSeq
<1>2. ParseCIDRRoutes(opt) = IF loop[N].ok THEN loop[N].routes ELSE <<>>
  BY Zenon DEF ParseCIDRRoutes
<1>3. ASSUME NEW s \in T PROVE NextCIDRRoute(opt, s) \in T
  <2> DEFINE width == opt[s.at + 1]
             n == Significant(width)
  <2>1. CASE ~ s.ok \/ N - s.at < 5
    BY <2>1 DEF NextCIDRRoute
  <2>2. CASE ~ (~ s.ok \/ N - s.at < 5) /\ (width > 32 \/ N - s.at < 1 + n + 4)
    <3> HIDE DEF n, width, R
    <3> QED BY <2>2 DEF NextCIDRRoute, n, width
  <2>3. CASE ~ (~ s.ok \/ N - s.at < 5) /\ ~ (width > 32 \/ N - s.at < 1 + n + 4)
    <3> DEFINE sn == [k \in 1 .. 4 |-> IF k <= n THEN opt[s.at + 1 + k] ELSE 0]
               gw == SubSeq(opt, s.at + n + 2, s.at + n + 5)
    <3>1. s.at \in Nat /\ s.routes \in Seq(R) /\ s.at + 1 \in 1 .. N /\ width \in Nat
      BY SMTT(30), <1>1, <2>3
    <3>2. n \in Nat /\ s.at + n + 5 <= N
      <4>1. n \in Nat
        BY <3>1 DEF Significant
      <4> HIDE DEF n, width
      <4> QED BY <1>1, <2>3, <3>1, <4>1
    <3>3. sn \in Seq(Nat)
      <4> HIDE DEF n, width
      <4>1. ASSUME NEW k \in 1 .. 4 PROVE (IF k <= n THEN opt[s.at + 1 + k] ELSE 0) \in Nat
        <5> DEFINE a == s.at
        <5>1. a \in Nat /\ a + n + 5 <= N
          BY <3>1, <3>2
        <5> HIDE DEF a
        <5>2. k <= n => a + 1 + k \in 1 .. N
          BY <1>1, <3>2, <5>1
        <5> QED BY <1>1, <5>2 DEF a
      <4>2. sn \in [1 .. 4 -> Nat]
        BY <4>1
      <4> HIDE DEF sn
      <4> QED BY <4>2, FourNumbers
    <3>4. gw \in Seq(Nat)
      <4> HIDE DEF n, width
      <4> DEFINE x == s.at + n + 2
                 y == s.at + n + 5
      <4>1. x \in Int /\ y \in Int /\ 1 <= x /\ y <= N
        BY SMTT(30), <1>1, <3>1, <3>2
      <4> HIDE DEF x, y
      <4>2. \A k \in x .. y : opt[k] \in Nat
        BY <1>1, <4>1
      <4>3. SubSeq(opt, x, y) \in Seq(Nat)
        BY <4>1, <4>2, SubSeqProperties
      <4> QED BY <4>3 DEF x, y
    <3>5. Route(sn, width, gw) \in R
      <4> HIDE DEF sn, width, gw
      <4> QED BY <3>1, <3>3, <3>4 DEF Route
    <3>6. NextCIDRRoute(opt, s) = [ok |-> TRUE, at |-> s.at + n + 5, routes |-> Append(s.routes, Route(sn, width, gw))]
      BY <2>3 DEF NextCIDRRoute
    <3> HIDE DEF sn, gw, R, width, n
    <3>7. Append(s.routes, Route(sn, width, gw)) \in Seq(R)
      BY <3>1, <3>5, AppendProperties
    <3> QED BY <3>1, <3>2, <3>6, <3>7
  <2> HIDE DEF width, n
  <2> QED BY <2>1, <2>2, <2>3
<1>4. d0 \in T
  BY EmptySeq
<1> HIDE DEF N, T, d0
<1>5. step \in [1 .. N -> [T -> T]]
  BY <1>3
<1>6. PICK g : RecursUpTo(g, N, T, d0, step)
  <2> HIDE DEF step
  <2> QED BY <1>1, <1>4, <1>5, RecursionUpTo
<1>7. g = body(g)
  <2>1. ASSUME NEW i \in 0 .. N PROVE g[i] = IF i = 0 THEN d0 ELSE NextCIDRRoute(opt, g[i - 1])
    <3>1. CASE i = 0
      BY <1>6, <3>1 DEF RecursUpTo
    <3>2. CASE i # 0
      <4>1. i \in 1 .. N /\ i - 1 \in 0 .. N
        BY <1>1, <3>2
      <4>2. g[i] = step[i][g[i - 1]] /\ g[i - 1] \in T
        BY <1>6, <4>1 DEF RecursUpTo
      <4> QED BY <3>2, <4>1, <4>2
    <3> QED BY <3>1, <3>2
  <2>2. g = [i \in 0 .. N |-> g[i]]
    BY <1>6 DEF RecursUpTo
  <2> QED BY <2>1, <2>2
<1>8. loop = body(loop)
  <2> HIDE DEF body
  <2> QED BY <1>7
<1> HIDE DEF loop
<1>9. loop[0] = d0 /\ \A i \in 1 .. N : loop[i] = NextCIDRRoute(opt, loop[i - 1])
  BY <1>1, <1>8
<1>10. ClasslessLoop(loop, opt)
  BY <1>2, <1>9 DEF ClasslessLoop, N, d0
<1> QED BY <1>10

(* A step of parseCIDRRoutes over the bytes of a route, as far as they are *)
(* there.                                                                  *)
RouteStep(opt, a, routes, p, r) ==
    LET s == [ok |-> TRUE, at |-> a, routes |-> routes]
    IN  IF r.width <= 32 /\ a + Len(p) <= Len(opt)
        THEN NextCIDRRoute(opt, s) = [ok |-> TRUE, at |-> a + Len(p), routes |-> Append(routes, r)]
        ELSE NextCIDRRoute(opt, s) = [ok |-> FALSE, at |-> a, routes |-> routes]

LEMMA ClasslessStep ==
    ASSUME NEW opt \in Seq(Nat), NEW a \in Nat, NEW r \in RouteRecord, NEW routes, NEW part,
           \A k \in 1 .. 4 : k > Holding(r.width) => r.dst[k] = 0,
           ClasslessBytes(part, r),
           \A k \in 1 .. Len(part) : a + k <= Len(opt) => opt[a + k] = part[k],
           ~ (Len(opt) - a < 5)
    PROVE  RouteStep(opt, a, routes, part, r)
<1> DEFINE N == Len(opt)
           h == Holding(r.width)
           p == Len(part)
           s == [ok |-> TRUE, at |-> a, routes |-> routes]
           m == Significant(opt[a + 1])
           w == r.width
<1>1. N \in Nat /\ \A k \in 1 .. N : opt[k] \in Nat
  BY LenProperties, ElementOfSeq
<1>2. /\ w \in Octet /\ r.dst \in [1 .. 4 -> Octet] /\ r.gw \in [1 .. 4 -> Octet]
      /\ r = [dst |-> r.dst, width |-> w, gw |-> r.gw]
  BY DEF RouteRecord
<1>3. h \in 0 .. 4 /\ Significant(w) \in Nat /\ (w <= 32 => Significant(w) = h) /\ w \in Nat
  <2> HIDE DEF w
  <2> QED BY <1>2, HoldingOK, OctetIsNat DEF w
<1>4. /\ p = h + 5 /\ part[1] = w
      /\ \A k \in 1 .. h : part[1 + k] = r.dst[k]
      /\ \A k \in 1 .. 4 : part[(1 + h) + k] = r.gw[k]
  BY DEF ClasslessBytes
<1>5. /\ \A k \in 1 .. p : a + k <= N => opt[a + k] = part[k]
      /\ ~ (N - a < 5)
      /\ \A k \in 1 .. 4 : k > h => r.dst[k] = 0
  OBVIOUS
<1>6. s.ok = TRUE /\ s.at = a /\ s.routes = routes
  OBVIOUS
<1> HIDE DEF N, h, p, w
<1>7. 1 \in 1 .. p /\ a + 1 <= N /\ a + 1 \in 1 .. N
  BY <1>1, <1>3, <1>4, <1>5
<1>8. opt[a + 1] = w
  BY <1>4, <1>5, <1>7
<1>9. m = Significant(w)
  BY <1>8
<1> HIDE DEF m, s
<1>10. NextCIDRRoute(opt, s) =
          IF w > 32 \/ N - a < 1 + m + 4 THEN [s EXCEPT !.ok = FALSE]
          ELSE [ok |-> TRUE, at |-> a + m + 5,
                routes |-> Append(routes,
                               Route([k \in 1 .. 4 |-> IF k <= m THEN opt[a + 1 + k] ELSE 0], w,
                                     SubSeq(opt, a + m + 2, a + m + 5)))]
  <2>1. ~ (~ s.ok \/ N - s.at < 5)
    BY <1>5, <1>6
  <2> QED BY <1>6, <1>8, <2>1 DEF NextCIDRRoute, N, m
<1>11. CASE w <= 32 /\ a + p <= N
  <2>0. N \in Nat /\ h \in 0 .. 4 /\ p = h + 5 /\ a + p <= N
    BY <1>1, <1>3, <1>4, <1>11
  <2>1. m = h /\ ~ (w > 32 \/ N - a < 1 + m + 4) /\ a + m + 5 = a + p
    BY <1>1, <1>3, <1>4, <1>9, <1>11
  <2>2. [k \in 1 .. 4 |-> IF k <= m THEN opt[a + 1 + k] ELSE 0] = r.dst
    <3>1. ASSUME NEW k \in 1 .. 4 PROVE (IF k <= m THEN opt[a + 1 + k] ELSE 0) = r.dst[k]
      <4>1. CASE k <= h
        <5>1. 1 + k \in 1 .. p /\ a + (1 + k) <= N /\ a + 1 + k = a + (1 + k) /\ k \in 1 .. h
          BY <2>0, <4>1
        <5>2. opt[a + (1 + k)] = part[1 + k]
          BY <1>5, <5>1
        <5> QED BY <1>4, <2>1, <4>1, <5>1, <5>2
      <4>2. CASE ~ (k <= h)
        <5>1. k > h
          BY <1>3, <4>2
        <5> QED BY <1>5, <2>1, <4>2, <5>1
      <4> QED BY <4>1, <4>2
    <3> QED BY <1>2, <3>1
  <2>3. SubSeq(opt, a + m + 2, a + m + 5) = r.gw
    <3> DEFINE q == a + (1 + h)
    <3>1. q \in Nat /\ q + 4 <= N /\ q + 1 = a + m + 2 /\ q + 4 = a + m + 5
      BY <2>0, <2>1
    <3>2. ASSUME NEW k \in 1 .. 4 PROVE opt[q + k] = r.gw[k]
      <4>1. (1 + h) + k \in 1 .. p /\ a + ((1 + h) + k) <= N /\ q + k = a + ((1 + h) + k)
        BY <2>0
      <4>2. opt[a + ((1 + h) + k)] = part[(1 + h) + k]
        BY <1>5, <4>1
      <4> QED BY <1>4, <4>1, <4>2
    <3> HIDE DEF q
    <3>3. SubSeq(opt, q + 1, q + 4) = r.gw
      BY <1>2, <3>1, <3>2, Window DEF N
    <3> QED BY <3>1, <3>3
  <2>4. Route(r.dst, w, r.gw) = r
    BY <1>2 DEF Route
  <2>5. NextCIDRRoute(opt, s) = [ok |-> TRUE, at |-> a + p, routes |-> Append(routes, r)]
    BY <1>10, <2>1, <2>2, <2>3, <2>4
  <2> QED BY <1>11, <2>5 DEF RouteStep, s, w, p, N
<1>12. CASE ~ (w <= 32 /\ a + p <= N)
  <2>1. w > 32 \/ N - a < 1 + m + 4
    BY <1>1, <1>3, <1>4, <1>9, <1>12, SMTT(30)
  <2>2. NextCIDRRoute(opt, s) = [ok |-> FALSE, at |-> a, routes |-> routes]
    BY <1>10, <2>1 DEF s
  <2> QED BY <1>12, <2>2 DEF RouteStep, s, w, p, N
<1> QED BY <1>11, <1>12

(* parseCIDRRoutes finds the routes that are whole, unless a width is too  *)
(* large or something follows that could be a route.                       *)
LEMMA ClasslessParsed ==
    ASSUME NEW rs \in Seq(RouteRecord),
           \A i \in 1 .. Len(rs) : \A k \in 1 .. 4 : k > Holding(rs[i].width) => rs[i].dst[k] = 0,
           NEW cut \in 0 .. Len(Flat(ClasslessParts(rs))), NEW n \in 0 .. Len(rs),
           Len(Built(ClasslessParts(rs))[n]) <= cut,
           n < Len(rs) => Len(Built(ClasslessParts(rs))[n + 1]) > cut
    PROVE  ParseCIDRRoutes(SubSeq(Flat(ClasslessParts(rs)), 1, cut)) =
               IF /\ cut - Len(Built(ClasslessParts(rs))[n]) < 5
                  /\ \A i \in 1 .. n : rs[i].width <= 32
               THEN SubSeq(rs, 1, n) ELSE <<>>
<1> DEFINE parts == ClasslessParts(rs)
           N == Len(rs)
           B == Built(parts)
           F == Flat(parts)
           opt == SubSeq(F, 1, cut)
           at(i) == Len(B[i])
<1>1. N \in Nat /\ \A i \in 1 .. N : rs[i] \in RouteRecord
  BY LenProperties, ElementOfSeq
<1>2. /\ parts \in Seq(Seq(Nat)) /\ Len(parts) = N
      /\ \A i \in 1 .. N : ClasslessBytes(parts[i], rs[i])
  BY ClasslessPart
<1>3. B \in [0 .. N -> Seq(Nat)] /\ B[0] = <<>> /\ F = B[N]
  <2> HIDE DEF parts
  <2> QED BY <1>2, BuiltSteps DEF Flat
<1>4. ASSUME NEW i \in 1 .. N
      PROVE  /\ at(i - 1) \in Nat /\ Len(parts[i]) \in Nat /\ Len(parts[i]) >= 5
             /\ at(i) = at(i - 1) + Len(parts[i])
             /\ \A k \in 1 .. Len(parts[i]) : F[at(i - 1) + k] = parts[i][k]
  <2> HIDE DEF parts
  <2>1. i \in 1 .. Len(parts)
    BY <1>2
  <2>2. Len(parts[i]) >= 5
    <3>1. rs[i].width \in Octet /\ Len(parts[i]) = Holding(rs[i].width) + 5
      BY <1>1, <1>2 DEF RouteRecord, ClasslessBytes
    <3>2. Holding(rs[i].width) \in 0 .. 4
      BY <3>1, HoldingOK
    <3> QED BY <3>1, <3>2
  <2>3. PartAt(parts, i)
    BY <1>2, <2>1, BuiltFrom, Zenon
  <2> QED BY <2>2, <2>3 DEF PartAt
<1>5. /\ n \in 0 .. N /\ n \in Nat /\ F \in Seq(Nat)
      /\ cut \in 0 .. Len(F) /\ Len(F) = at(N) /\ at(n) <= cut /\ (n < N => at(n + 1) > cut)
  <2>1. n \in 0 .. N /\ n \in Nat /\ N \in 0 .. N
    BY <1>1
  <2>2. F \in Seq(Nat) /\ Len(F) = at(N)
    BY <1>3, <2>1
  <2> QED BY <2>1, <2>2
<1>6. at(0) = 0
  BY <1>3, EmptySeq
<1>7. \A i \in 1 .. N : \A k \in 1 .. 4 : k > Holding(rs[i].width) => rs[i].dst[k] = 0
  OBVIOUS
<1>20. at(N) \in Nat
  <2>1. N = 0 \/ N \in 1 .. N
    BY <1>1
  <2>2. Len(F) \in Nat
    BY <1>5, LenProperties
  <2> QED BY <1>5, <2>2
<1> HIDE DEF parts, N, B, F, at
<1>8. \A i \in 0 .. N : at(i) \in Nat /\ at(i) >= 5 * i
  <2> DEFINE S == {i \in 0 .. N : at(i) \in Nat /\ at(i) >= 5 * i}
  <2>1. 0 \in S
    BY <1>1, <1>6
  <2>2. ASSUME NEW i \in 0 .. N - 1, i \in S PROVE i + 1 \in S
    <3>1. i + 1 \in 1 .. N /\ (i + 1) - 1 = i /\ i + 1 \in 0 .. N
      BY <1>1
    <3> DEFINE z == Len(parts[i + 1])
    <3>2. at(i + 1) = at(i) + z /\ z \in Nat /\ z >= 5
      BY <1>4, <3>1
    <3> HIDE DEF z
    <3>3. at(i) \in Nat /\ at(i) >= 5 * i
      BY <2>2
    <3>4. at(i + 1) \in Nat /\ at(i + 1) >= 5 * (i + 1)
      BY <3>2, <3>3
    <3> QED BY <3>1, <3>4
  <2>3. 0 .. N \subseteq S
    <3> HIDE DEF S
    <3> QED BY <1>1, <2>1, <2>2, InductionUpTo
  <2> QED BY <2>3
<1>9. \A i \in 0 .. N : i <= n => at(i) <= at(n)
  <2> DEFINE S == {d \in 0 .. n : at(n - d) <= at(n)}
  <2>1. 0 \in S
    <3>1. n - 0 = n /\ at(n) \in Nat
      BY <1>5, <1>8
    <3> QED BY <1>5, <3>1
  <2>2. ASSUME NEW d \in 0 .. n - 1, d \in S PROVE d + 1 \in S
    <3> DEFINE i == n - d
    <3>1. i \in 1 .. N /\ i - 1 \in 0 .. N /\ i \in 0 .. N /\ n - (d + 1) = i - 1 /\ d + 1 \in 0 .. n
      BY <1>1, <1>5
    <3>2. at(i) <= at(n)
      BY <2>2
    <3> HIDE DEF i
    <3> DEFINE z == Len(parts[i])
    <3>3. at(i) = at(i - 1) + z /\ z \in Nat
      BY <1>4, <3>1
    <3> HIDE DEF z
    <3>4. at(i - 1) \in Nat /\ at(i) \in Nat /\ at(n) \in Nat
      BY <1>5, <1>8, <3>1
    <3>5. at(i - 1) <= at(n)
      BY <3>2, <3>3, <3>4
    <3> QED BY <3>1, <3>5
  <2>3. 0 .. n \subseteq S
    <3> HIDE DEF S
    <3> QED BY <1>5, <2>1, <2>2, InductionUpTo
  <2>4. ASSUME NEW i \in 0 .. N, i <= n PROVE at(i) <= at(n)
    <3>1. n - i \in 0 .. n /\ n - (n - i) = i
      BY <1>5, <2>4
    <3>2. n - i \in S
      <4> HIDE DEF S
      <4> QED BY <2>3, <3>1
    <3>3. at(n - (n - i)) <= at(n)
      BY <3>2
    <3> QED BY <3>1, <3>3
  <2> QED BY <2>4
<1>10. opt \in Seq(Nat) /\ Len(opt) = cut /\ cut \in Nat /\ \A k \in 1 .. cut : opt[k] = F[k]
  <2>1. Len(F) \in Nat
    BY <1>5, <1>20
  <2> QED BY <1>5, <2>1, Cut
<1> HIDE DEF opt
<1>11. PICK loop : ClasslessLoop(loop, opt)
  BY <1>10, ClasslessLoopOK
<1>12. /\ loop[0] = [ok |-> TRUE, at |-> 0, routes |-> <<>>]
       /\ \A i \in 1 .. cut : loop[i] = NextCIDRRoute(opt, loop[i - 1])
       /\ ParseCIDRRoutes(opt) = IF loop[cut].ok THEN loop[cut].routes ELSE <<>>
  BY <1>10, <1>11 DEF ClasslessLoop
<1> DEFINE L(i) == [ok |-> TRUE, at |-> at(i), routes |-> SubSeq(rs, 1, i)]
           Good(i) == \A j \in 1 .. i : rs[j].width <= 32
           E == Good(n) /\ cut - at(n) < 5
           P(i) == IF i <= n THEN IF Good(i) THEN loop[i] = L(i) ELSE loop[i].ok = FALSE
                             ELSE IF E THEN loop[i] = L(n) ELSE loop[i].ok = FALSE
           S == {i \in 0 .. cut : P(i)}
<1>13. 0 \in S
  <2>1. SubSeq(rs, 1, 0) = <<>>
    BY SubSeqEmpty
  <2>2. Good(0) /\ 0 <= n /\ 0 \in 0 .. cut
    BY <1>5, <1>10
  <2>3. loop[0] = L(0)
    BY <1>6, <1>12, <2>1
  <2> HIDE DEF Good, L
  <2> QED BY <2>2, <2>3
<1>14. \A i \in 0 .. N : L(i).ok = TRUE /\ L(i).at = at(i) /\ L(i).routes = SubSeq(rs, 1, i)
  OBVIOUS
<1>15. ASSUME NEW i \in 0 .. cut - 1, i \in S PROVE i + 1 \in S
  <2>1. i + 1 \in 1 .. cut /\ (i + 1) - 1 = i /\ i + 1 \in 0 .. cut /\ i \in Nat
    BY <1>10
  <2>2. loop[i + 1] = NextCIDRRoute(opt, loop[i])
    BY <1>12, <2>1
  <2>3. P(i)
    BY <1>15
  <2>4. CASE loop[i].ok = FALSE
    <3>1. loop[i + 1] = loop[i]
      BY <2>2, <2>4 DEF NextCIDRRoute
    <3>2. CASE i + 1 <= n
      <4>1. i <= n /\ i \in 0 .. N
        BY <1>1, <1>5, <2>1, <3>2
      <4>2. ~ Good(i)
        <5> HIDE DEF L, Good, E
        <5> QED BY <1>14, <2>3, <2>4, <4>1
      <4>3. \A j \in 1 .. i : j \in 1 .. i + 1
        BY <2>1
      <4>4. ~ Good(i + 1)
        BY <4>2, <4>3
      <4> HIDE DEF L, Good, E
      <4> QED BY <2>1, <2>4, <3>1, <3>2, <4>4
    <3>3. CASE ~ (i + 1 <= n)
      <4>1. i = n \/ ~ (i <= n)
        BY <1>5, <2>1, <3>3
      <4>2. n <= n /\ n \in 0 .. N
        BY <1>5
      <4>3. ~ E
        <5> HIDE DEF L, Good
        <5>1. L(n).ok = TRUE
          BY <1>14, <4>2
        <5>2. i = n => ~ Good(n)
          <6> HIDE DEF E
          <6> QED BY <2>3, <2>4, <4>2, <5>1
        <5>3. ~ (i <= n) => ~ E
          <6> HIDE DEF E
          <6> QED BY <2>3, <2>4, <5>1
        <5> QED BY <4>1, <5>2, <5>3
      <4> HIDE DEF L, Good, E
      <4> QED BY <2>1, <2>4, <3>1, <3>3, <4>3
    <3> QED BY <3>2, <3>3
  <2>5. CASE loop[i].ok # FALSE /\ i < n
    <3>1. i <= n /\ i + 1 <= n /\ i \in 0 .. N /\ i + 1 \in 1 .. N /\ i + 1 \in 0 .. N
      BY <1>1, <1>5, <2>1, <2>5
    <3>2. Good(i) /\ loop[i] = L(i)
      <4> HIDE DEF L, Good, E
      <4> QED BY <2>3, <2>5, <3>1
    <3> DEFINE r == rs[i + 1]
               p == parts[i + 1]
               a == at(i)
               z == Len(p)
    <3>3. /\ r \in RouteRecord /\ ClasslessBytes(p, r)
          /\ \A k \in 1 .. 4 : k > Holding(r.width) => r.dst[k] = 0
      BY <1>1, <1>2, <1>7, <3>1
    <3>4. /\ a \in Nat /\ z \in Nat /\ z >= 5 /\ at(i + 1) = a + z
          /\ \A k \in 1 .. z : F[a + k] = p[k]
      BY <1>4, <2>1, <3>1
    <3>5. at(i + 1) <= at(n) /\ at(n) \in Nat /\ at(i + 1) \in Nat /\ at(n) <= cut
      BY <1>5, <1>8, <1>9, <3>1
    <3>6. loop[i] = [ok |-> TRUE, at |-> a, routes |-> SubSeq(rs, 1, i)]
      BY <3>2
    <3> HIDE DEF r, p, a, z
    <3>7. a + z <= cut /\ ~ (Len(opt) - a < 5)
      <4> DEFINE x == at(i + 1)
                 y == at(n)
      <4>1. /\ x = a + z /\ x <= y /\ y <= cut /\ x \in Nat /\ y \in Nat /\ cut \in Nat
            /\ a \in Nat /\ z \in Nat /\ z >= 5
        BY <1>10, <3>4, <3>5
      <4> HIDE DEF x, y
      <4>2. a + z <= cut /\ ~ (cut - a < 5)
        BY <4>1
      <4> QED BY <1>10, <4>2
    <3>8. \A k \in 1 .. z : a + k <= Len(opt) => opt[a + k] = p[k]
      <4>1. \A k \in 1 .. z : a + k \in 1 .. cut
        BY <1>10, <3>4, <3>7
      <4> QED BY <1>10, <3>4, <4>1
    <3>9. IF r.width <= 32 /\ a + z <= Len(opt)
          THEN loop[i + 1] = [ok |-> TRUE, at |-> a + z, routes |-> Append(SubSeq(rs, 1, i), r)]
          ELSE loop[i + 1] = [ok |-> FALSE, at |-> a, routes |-> SubSeq(rs, 1, i)]
      <4>1. RouteStep(opt, a, SubSeq(rs, 1, i), p, r)
        BY <1>10, <3>3, <3>4, <3>7, <3>8, ClasslessStep DEF z
      <4> QED BY <2>2, <3>6, <4>1 DEF RouteStep, z
    <3>10. Append(SubSeq(rs, 1, i), r) = SubSeq(rs, 1, i + 1)
      <4>1. i + 1 <= Len(rs)
        BY <1>1, <3>1 DEF N
      <4> QED BY <2>1, <4>1, OneMore DEF r
    <3>11. Good(i + 1) <=> r.width <= 32
      <4>1. \A j \in 1 .. i + 1 : j \in 1 .. i \/ j = i + 1
        BY <2>1
      <4>2. i + 1 \in 1 .. i + 1
        BY <2>1
      <4> QED BY <3>2, <4>1, <4>2 DEF r
    <3>12. IF Good(i + 1) THEN loop[i + 1] = L(i + 1) ELSE loop[i + 1].ok = FALSE
      <4>1. a + z <= Len(opt)
        BY <1>10, <3>7
      <4> HIDE DEF Good
      <4>2. CASE r.width <= 32
        <5>1. loop[i + 1] = [ok |-> TRUE, at |-> at(i + 1), routes |-> SubSeq(rs, 1, i + 1)]
          BY <3>4, <3>9, <3>10, <4>1, <4>2
        <5> QED BY <3>11, <4>2, <5>1
      <4>3. CASE ~ (r.width <= 32)
        <5>1. loop[i + 1] = [ok |-> FALSE, at |-> a, routes |-> SubSeq(rs, 1, i)]
          BY <3>9, <4>3
        <5> QED BY <3>11, <4>3, <5>1
      <4> QED BY <4>2, <4>3
    <3> HIDE DEF Good, L, E
    <3> QED BY <2>1, <3>1, <3>12
  <2>6. CASE loop[i].ok # FALSE /\ i = n /\ ~ (cut - at(n) < 5)
    <3>0. n < N
      <4>1. at(N) \in Nat /\ cut <= at(N) /\ cut \in Nat
        BY <1>5, <1>10, <1>20
      <4>2. n = N => cut - at(n) = 0
        BY <1>5, <4>1
      <4>3. n # N
        BY <2>6, <4>2
      <4> QED BY <1>1, <1>5, <4>3
    <3>1. i <= n /\ ~ (i + 1 <= n) /\ i \in 0 .. N /\ i + 1 \in 1 .. N
      BY <1>1, <1>5, <2>1, <2>6, <3>0
    <3>2. loop[i] = L(i)
      <4> HIDE DEF L, Good, E
      <4> QED BY <2>3, <2>6, <3>1
    <3> DEFINE r == rs[i + 1]
               p == parts[i + 1]
               a == at(i)
               z == Len(p)
    <3>3. /\ r \in RouteRecord /\ ClasslessBytes(p, r)
          /\ \A k \in 1 .. 4 : k > Holding(r.width) => r.dst[k] = 0
      BY <1>1, <1>2, <1>7, <3>1
    <3>4. /\ a \in Nat /\ z \in Nat /\ z >= 5 /\ at(i + 1) = a + z
          /\ \A k \in 1 .. z : F[a + k] = p[k]
      BY <1>4, <2>1, <3>1
    <3>5. ~ (cut - a < 5) /\ at(i + 1) > cut
      BY <1>5, <2>6, <3>0
    <3>6. loop[i] = [ok |-> TRUE, at |-> a, routes |-> SubSeq(rs, 1, i)]
      BY <3>2
    <3> HIDE DEF r, p, a, z
    <3>7. ~ (a + z <= Len(opt)) /\ ~ (Len(opt) - a < 5)
      BY <1>10, <3>4, <3>5
    <3>8. \A k \in 1 .. z : a + k <= Len(opt) => opt[a + k] = p[k]
      <4>1. \A k \in 1 .. z : a + k <= cut => a + k \in 1 .. cut
        BY <1>10, <3>4
      <4> QED BY <1>10, <3>4, <4>1
    <3>9. loop[i + 1] = [ok |-> FALSE, at |-> a, routes |-> SubSeq(rs, 1, i)]
      <4>1. IF r.width <= 32 /\ a + z <= Len(opt)
            THEN loop[i + 1] = [ok |-> TRUE, at |-> a + z, routes |-> Append(SubSeq(rs, 1, i), r)]
            ELSE loop[i + 1] = [ok |-> FALSE, at |-> a, routes |-> SubSeq(rs, 1, i)]
        <5>1. RouteStep(opt, a, SubSeq(rs, 1, i), p, r)
          BY <1>10, <3>3, <3>4, <3>7, <3>8, ClasslessStep DEF z
        <5> QED BY <2>2, <3>6, <5>1 DEF RouteStep, z
      <4> QED BY <3>7, <4>1
    <3>10. ~ E /\ loop[i + 1].ok = FALSE
      <4> HIDE DEF Good
      <4> QED BY <2>6, <3>9
    <3> HIDE DEF Good, L, E
    <3> QED BY <2>1, <3>1, <3>10
  <2>7. CASE loop[i].ok # FALSE /\ ~ (i < n) /\ ~ (i = n /\ ~ (cut - at(n) < 5))
    <3>1. (i = n \/ ~ (i <= n)) /\ ~ (i + 1 <= n) /\ n <= n /\ n \in 0 .. N
      BY <1>5, <2>1, <2>7
    <3>2. E /\ loop[i] = L(n)
      <4>1. CASE i = n
        <5> HIDE DEF L, Good
        <5> QED BY <2>3, <2>7, <3>1, <4>1
      <4>2. CASE ~ (i <= n)
        <5> HIDE DEF L, Good, E
        <5> QED BY <2>3, <2>7, <4>2
      <4> QED BY <3>1, <4>1, <4>2
    <3>3. Len(opt) - L(n).at < 5
      <4> HIDE DEF L, Good
      <4> QED BY <1>10, <1>14, <3>1, <3>2
    <3>4. loop[i + 1] = L(n)
      <4> HIDE DEF L, Good, E
      <4> QED BY <2>2, <3>2, <3>3 DEF NextCIDRRoute
    <3> HIDE DEF L, Good, E
    <3> QED BY <2>1, <3>1, <3>2, <3>4
  <2> QED BY <2>4, <2>5, <2>6, <2>7, <2>1, <1>5
<1>16. P(cut)
  <2> HIDE DEF P
  <2>1. 0 .. cut \subseteq S
    <3> HIDE DEF S
    <3> QED BY <1>10, <1>13, <1>15, InductionUpTo
  <2> QED BY <1>10, <2>1
<1>17. n \in 0 .. N /\ at(n) \in Nat /\ at(n) >= 5 * n /\ at(n) <= cut
  BY <1>5, <1>8
<1>18. IF E THEN loop[cut] = L(n) ELSE loop[cut].ok = FALSE
  <2>1. CASE cut <= n
    <3>1. cut = n /\ n = 0 /\ cut - at(n) < 5
      <4> DEFINE x == at(n)
      <4>1. x \in Nat /\ x >= 5 * n /\ x <= cut
        BY <1>17
      <4> HIDE DEF x
      <4>2. cut = n /\ n = 0 /\ cut - x < 5
        BY <1>5, <1>10, <2>1, <4>1
      <4> QED BY <4>2 DEF x
    <3>2. Good(n)
      BY <3>1
    <3>3. n <= n
      BY <1>5
    <3>4. loop[cut] = L(n)
      <4> HIDE DEF L, Good, E
      <4> QED BY <1>16, <3>1, <3>2, <3>3
    <3> HIDE DEF L, Good
    <3> QED BY <3>1, <3>2, <3>4
  <2>2. CASE ~ (cut <= n)
    <3> HIDE DEF L, Good, E
    <3> QED BY <1>16, <2>2
  <2> QED BY <2>1, <2>2
<1>19. ParseCIDRRoutes(opt) = IF E THEN SubSeq(rs, 1, n) ELSE <<>>
  <2> HIDE DEF L, Good, E
  <2> QED BY <1>12, <1>14, <1>17, <1>18
<1> QED BY <1>19 DEF opt, F, parts, at, B

-----------------------------------------------------------------------------
(* RoutesAreOffered                                                        *)

(* Where an option is cut, after how many parts.                           *)
CutAfter(parts, cut, n) ==
    n \in 0 .. Len(parts) /\ Len(Built(parts)[n]) <= cut /\ (n < Len(parts) => Len(Built(parts)[n + 1]) > cut)

LEMMA CutSomewhere ==
    ASSUME NEW parts \in Seq(Seq(Nat)), NEW cut \in 0 .. Len(Flat(parts))
    PROVE  \E n : CutAfter(parts, cut, n)
<1> DEFINE N == Len(parts)
           at(n) == Len(Built(parts)[n])
           S == {n \in 0 .. N : at(n) <= cut}
<1> SUFFICES ASSUME \A n : ~ CutAfter(parts, cut, n) PROVE FALSE
  OBVIOUS
<1>1. N \in Nat
  BY LenProperties
<1>2. Built(parts) \in [0 .. N -> Seq(Nat)] /\ Built(parts)[0] = <<>>
  BY BuiltSteps
<1>3. at(0) = 0 /\ \A n \in 0 .. N : at(n) \in Nat
  BY <1>2, EmptySeq, LenProperties
<1>4. at(N) = Len(Flat(parts)) /\ N \in 0 .. N
  BY <1>1 DEF Flat
<1>5. cut \in Nat
  <2>1. at(N) \in Nat
    BY <1>3, <1>4
  <2> QED BY <1>4, <2>1
<1>6. \A n \in 0 .. N : ~ (at(n) <= cut /\ (n < N => at(n + 1) > cut))
  BY DEF CutAfter
<1> HIDE DEF N, at
<1>7. 0 \in S
  BY <1>1, <1>3, <1>5
<1>8. ASSUME NEW n \in 0 .. N - 1, n \in S PROVE n + 1 \in S
  <2>1. n \in 0 .. N /\ n < N /\ n + 1 \in 0 .. N
    BY <1>1
  <2>2. at(n) <= cut /\ at(n + 1) \in Nat
    BY <1>3, <1>8, <2>1
  <2>3. at(n + 1) <= cut
    <3> DEFINE x == at(n + 1)
    <3>1. x \in Nat /\ ~ (x > cut)
      BY <1>6, <2>1, <2>2
    <3> HIDE DEF x
    <3>2. x <= cut
      BY <1>5, <3>1
    <3> QED BY <3>2 DEF x
  <2> QED BY <2>1, <2>3
<1>9. N \in S
  <2> HIDE DEF S
  <2>1. 0 .. N \subseteq S
    BY <1>1, <1>7, <1>8, InductionUpTo
  <2> QED BY <1>4, <2>1
<1>10. at(N) <= cut /\ ~ (N < N)
  BY <1>1, <1>9
<1> QED BY <1>4, <1>6, <1>10

LEMMA FlatOK == ASSUME NEW S, NEW parts \in Seq(Seq(S)) PROVE Flat(parts) \in Seq(S)
<1>1. Built(parts) \in [0 .. Len(parts) -> Seq(S)]
  BY BuiltSteps
<1>2. Len(parts) \in 0 .. Len(parts)
  <2>1. Len(parts) \in Nat
    BY LenProperties
  <2> QED BY <2>1
<1> QED BY <1>1, <1>2 DEF Flat

LEMMA WholeIs ==
    ASSUME NEW parts \in Seq(Seq(Nat)), NEW rs, NEW cut \in 0 .. Len(Flat(parts))
    PROVE  \E n : /\ CutAfter(parts, cut, n)
                  /\ Whole([routes |-> rs, cut |-> cut], parts) =
                        [routes |-> SubSeq(rs, 1, n), rest |-> cut - Len(Built(parts)[n])]
<1> DEFINE o == [routes |-> rs, cut |-> cut]
           n == CHOOSE n \in 0 .. Len(parts) :
                    Len(Built(parts)[n]) <= cut /\ (n < Len(parts) => Len(Built(parts)[n + 1]) > cut)
<1>1. \E m \in 0 .. Len(parts) :
          Len(Built(parts)[m]) <= cut /\ (m < Len(parts) => Len(Built(parts)[m + 1]) > cut)
  BY CutSomewhere DEF CutAfter
<1>2. CutAfter(parts, cut, n)
  BY <1>1 DEF CutAfter
<1>3. o.cut = cut /\ o.routes = rs
  OBVIOUS
<1> HIDE DEF o
<1>4. Whole(o, parts) = [routes |-> SubSeq(rs, 1, n), rest |-> cut - Len(Built(parts)[n])]
  BY <1>3 DEF Whole
<1> HIDE DEF n
<1> QED BY <1>2, <1>4 DEF o

(* The options of the initial states.                                      *)
StaticList(rs) == rs \in Seq(RouteRecord) /\ \A i \in 1 .. Len(rs) : rs[i].width = DefaultMask(rs[i].dst)
ClasslessList(rs) ==
    /\ rs \in Seq(RouteRecord)
    /\ \A i \in 1 .. Len(rs) : \A k \in 1 .. 4 : k > Holding(rs[i].width) => rs[i].dst[k] = 0

StaticInput(o) == o = NoOption \/ \E rs : StaticList(rs) /\ o \in Cuts(rs, StaticParts(rs))
ClasslessInput(o) == o = NoOption \/ \E rs : ClasslessList(rs) /\ o \in Cuts(rs, ClasslessParts(rs))

LEMMA StaticRouteOK == \A r \in StaticRoute : r \in RouteRecord /\ r.width = DefaultMask(r.dst)
<1> SUFFICES ASSUME NEW sn \in Subnets, NEW gw \in Routers
             PROVE  LET r == Route(sn, DefaultMask(sn), gw) IN r \in RouteRecord /\ r.width = DefaultMask(r.dst)
  BY DEF StaticRoute
<1>1. sn \in [1 .. 4 -> Octet] /\ gw \in [1 .. 4 -> Octet] /\ DefaultMask(sn) \in Octet
  BY OptionsAssumption DEF DefaultMask, Octet
<1> QED BY <1>1 DEF Route, RouteRecord

LEMMA ClasslessRouteOK ==
    \A r \in ClasslessRoute : r \in RouteRecord /\ \A k \in 1 .. 4 : k > Holding(r.width) => r.dst[k] = 0
<1> DEFINE dst(w, sn) == [k \in 1 .. 4 |-> IF k <= Holding(w) THEN sn[k] ELSE 0]
           R(w, sn, gw) == Route(dst(w, sn), w, gw)
           Good(r) == r \in RouteRecord /\ \A k \in 1 .. 4 : k > Holding(r.width) => r.dst[k] = 0
<1>1. ASSUME NEW w \in Widths, NEW sn \in Subnets, NEW gw \in Routers PROVE Good(R(w, sn, gw))
  <2>1. sn \in [1 .. 4 -> Octet] /\ gw \in [1 .. 4 -> Octet] /\ w \in Octet /\ 0 \in Octet
    BY OptionsAssumption DEF Octet
  <2>2. Holding(w) \in 0 .. 4
    BY <2>1, HoldingOK
  <2>3. dst(w, sn) \in [1 .. 4 -> Octet]
    BY <2>1
  <2>4. \A k \in 1 .. 4 : k > Holding(w) => dst(w, sn)[k] = 0
    BY <2>2
  <2> HIDE DEF dst
  <2> QED BY <2>1, <2>3, <2>4 DEF Route, RouteRecord
<1>2. ClasslessRoute = {R(w, sn, gw) : w \in Widths, sn \in Subnets, gw \in Routers}
  BY DEF ClasslessRoute
<1> HIDE DEF R, Good
<1>3. \A r \in ClasslessRoute : Good(r)
  BY <1>1, <1>2
<1> QED BY <1>3 DEF Good

LEMMA ListsOK == ASSUME NEW S, NEW rs \in Lists(S) PROVE rs \in Seq(S)
<1>1. PICK n \in 0 .. MaxRoutes : rs \in [1 .. n -> S]
  BY DEF Lists
<1>2. n \in Nat
  BY OptionsAssumption
<1> QED BY <1>1, <1>2, SeqDef

LEMMA OptionsOK == Init => StaticInput(static) /\ ClasslessInput(classless)
<1>1. ASSUME NEW rs \in Lists(StaticRoute) PROVE StaticList(rs)
  <2>1. rs \in Seq(StaticRoute) /\ \A i \in 1 .. Len(rs) : rs[i] \in StaticRoute
    BY ListsOK, ElementOfSeq
  <2>2. rs \in Seq(RouteRecord)
    BY <2>1, StaticRouteOK, SeqMonotonic
  <2> QED BY <2>1, <2>2, StaticRouteOK DEF StaticList
<1>2. ASSUME NEW rs \in Lists(ClasslessRoute) PROVE ClasslessList(rs)
  <2>1. rs \in Seq(ClasslessRoute) /\ \A i \in 1 .. Len(rs) : rs[i] \in ClasslessRoute
    BY ListsOK, ElementOfSeq
  <2>2. rs \in Seq(RouteRecord)
    BY <2>1, ClasslessRouteOK, SeqMonotonic
  <2> QED BY <2>1, <2>2, ClasslessRouteOK DEF ClasslessList
<1>3. ASSUME NEW r \in StaticRoute, NEW c \in {7, 8} PROVE StaticInput([routes |-> <<r>>, cut |-> c])
  <2> DEFINE rs == <<r>>
             parts == StaticParts(rs)
  <2>1. rs \in Seq(RouteRecord) /\ Len(rs) = 1 /\ rs[1] = r
    BY StaticRouteOK
  <2>2. StaticList(rs)
    <3> HIDE DEF rs
    <3>1. \A i \in 1 .. Len(rs) : i = 1
      BY <2>1
    <3> QED BY <2>1, <3>1, StaticRouteOK DEF StaticList
  <2> HIDE DEF rs
  <2>3. parts \in Seq(Seq(Nat)) /\ Len(parts) = 1 /\ Len(parts[1]) = 8
    BY <2>1, StaticPart
  <2> HIDE DEF parts
  <2>4. PartAt(parts, 1)
    <3>1. 1 \in 1 .. Len(parts)
      BY <2>3
    <3> QED BY <2>3, <3>1, BuiltFrom, Zenon
  <2>5. Len(Flat(parts)) \in Nat /\ Len(Flat(parts)) >= 8
    <3>1. Flat(parts) \in Seq(Nat)
      BY <2>3, FlatOK
    <3>2. Len(Flat(parts)) \in Nat
      BY <3>1, LenProperties
    <3> DEFINE x == Len(Built(parts)[1 - 1])
               y == Len(Built(parts)[1])
               z == Len(Flat(parts))
    <3>3. x \in Nat /\ y = x + 8 /\ y <= z /\ z \in Nat
      BY <2>3, <2>4, <3>2 DEF PartAt
    <3> HIDE DEF x, y, z
    <3>4. z >= 8
      BY <3>3
    <3> QED BY <3>2, <3>4 DEF z
  <2>6. c \in 0 .. Len(Flat(parts))
    BY <2>5
  <2>7. [routes |-> rs, cut |-> c] \in Cuts(rs, parts)
    BY <2>6 DEF Cuts
  <2> QED BY <2>2, <2>7 DEF StaticInput, parts, rs
<1>4. ASSUME OptionInputs PROVE StaticInput(static) /\ ClasslessInput(classless)
  <2>1. ASSUME static = NoOption \/ \E rs \in Lists(StaticRoute) : static \in Cuts(rs, StaticParts(rs))
        PROVE  StaticInput(static)
    BY <1>1, <2>1 DEF StaticInput
  <2>2. ASSUME \E r \in StaticRoute, c \in {7, 8} : static = [routes |-> <<r>>, cut |-> c]
        PROVE  StaticInput(static)
    BY <1>3, <2>2
  <2>3. StaticInput(static)
    BY <1>4, <2>1, <2>2 DEF OptionInputs
  <2>4. classless = NoOption \/ \E rs \in Lists(ClasslessRoute) : classless \in Cuts(rs, ClasslessParts(rs))
    BY <1>4 DEF OptionInputs
  <2>5. ClasslessInput(classless)
    BY <1>2, <2>4 DEF ClasslessInput
  <2> QED BY <2>3, <2>5
<1>5. NoOptions => StaticInput(static) /\ ClasslessInput(classless)
  BY DEF NoOptions, StaticInput, ClasslessInput
<1> QED BY <1>4, <1>5 DEF Init

(* What a lease reads of either option.                                    *)
LEMMA StaticOffered ==
    ASSUME NEW o, StaticInput(o)
    PROVE  LET parts == StaticParts(o.routes)
           IN  (IF Bytes(o, parts) = NoOption THEN <<>> ELSE ParseRoutes(Bytes(o, parts))) =
               (IF o = NoOption THEN <<>> ELSE Whole(o, parts).routes)
<1>1. CASE o = NoOption
  BY <1>1 DEF Bytes
<1>2. ASSUME NEW rs, StaticList(rs), o \in Cuts(rs, StaticParts(rs))
      PROVE  LET parts == StaticParts(o.routes)
             IN  (IF Bytes(o, parts) = NoOption THEN <<>> ELSE ParseRoutes(Bytes(o, parts))) =
                 (IF o = NoOption THEN <<>> ELSE Whole(o, parts).routes)
  <2> DEFINE parts == StaticParts(rs)
             F == Flat(parts)
  <2>1. PICK cut \in 0 .. Len(F) : o = [routes |-> rs, cut |-> cut]
    BY <1>2 DEF Cuts
  <2>2. rs \in Seq(RouteRecord) /\ \A i \in 1 .. Len(rs) : rs[i].width = DefaultMask(rs[i].dst)
    BY <1>2 DEF StaticList
  <2>3. parts \in Seq(Seq(Nat)) /\ Len(parts) = Len(rs)
    BY <2>2, StaticPart
  <2>4. F \in Seq(Nat)
    <3> HIDE DEF parts
    <3> QED BY <2>3, FlatOK
  <2>5. cut \in Nat /\ SubSeq(F, 1, cut) \in Seq(Nat)
    <3> HIDE DEF F
    <3> QED BY <2>4, Cut, LenProperties
  <2>6. o # NoOption /\ o.routes = rs /\ o.cut = cut
    <3>1. o \in [routes : Seq(RouteRecord), cut : Nat]
      BY <2>1, <2>2, <2>5
    <3> QED BY <2>1, <3>1, OptionsAssumption
  <2>7. Bytes(o, parts) = SubSeq(F, 1, cut)
    BY <2>6 DEF Bytes
  <2>8. SubSeq(F, 1, cut) # NoOption
    BY <2>5, OptionsAssumption
  <2> HIDE DEF parts
  <2>9. PICK n : CutAfter(parts, cut, n) /\ Whole(o, parts).routes = SubSeq(rs, 1, n)
    <3>1. \E n : /\ CutAfter(parts, cut, n)
                 /\ Whole([routes |-> rs, cut |-> cut], parts) =
                        [routes |-> SubSeq(rs, 1, n), rest |-> cut - Len(Built(parts)[n])]
      BY <2>1, <2>3, WholeIs
    <3> QED BY <2>1, <3>1
  <2>10. ParseRoutes(SubSeq(F, 1, cut)) = SubSeq(rs, 1, n)
    <3>1. n \in 0 .. Len(rs) /\ Len(Built(parts)[n]) <= cut /\ (n < Len(rs) => Len(Built(parts)[n + 1]) > cut)
      BY <2>3, <2>9 DEF CutAfter
    <3> QED BY <2>1, <2>2, <3>1, StaticParsed DEF parts
  <2> HIDE DEF F
  <2> QED BY <2>6, <2>7, <2>8, <2>9, <2>10 DEF parts
<1> QED BY <1>1, <1>2 DEF StaticInput

LEMMA ClasslessOffered ==
    ASSUME NEW o, ClasslessInput(o)
    PROVE  LET parts == ClasslessParts(o.routes)
               w == Whole(o, parts)
           IN  (IF Bytes(o, parts) = NoOption THEN <<>> ELSE ParseCIDRRoutes(Bytes(o, parts))) =
               (IF o = NoOption \/ ~ (w.rest < 5 /\ \A i \in 1 .. Len(w.routes) : w.routes[i].width <= 32)
                THEN <<>> ELSE w.routes)
<1>1. CASE o = NoOption
  BY <1>1 DEF Bytes
<1>2. ASSUME NEW rs, ClasslessList(rs), o \in Cuts(rs, ClasslessParts(rs))
      PROVE  LET parts == ClasslessParts(o.routes)
                 w == Whole(o, parts)
             IN  (IF Bytes(o, parts) = NoOption THEN <<>> ELSE ParseCIDRRoutes(Bytes(o, parts))) =
                 (IF o = NoOption \/ ~ (w.rest < 5 /\ \A i \in 1 .. Len(w.routes) : w.routes[i].width <= 32)
                  THEN <<>> ELSE w.routes)
  <2> DEFINE parts == ClasslessParts(rs)
             F == Flat(parts)
             w == Whole(o, parts)
  <2>1. PICK cut \in 0 .. Len(F) : o = [routes |-> rs, cut |-> cut]
    BY <1>2 DEF Cuts
  <2>2. /\ rs \in Seq(RouteRecord)
        /\ \A i \in 1 .. Len(rs) : \A k \in 1 .. 4 : k > Holding(rs[i].width) => rs[i].dst[k] = 0
    BY <1>2 DEF ClasslessList
  <2>3. parts \in Seq(Seq(Nat)) /\ Len(parts) = Len(rs)
    BY <2>2, ClasslessPart
  <2>4. F \in Seq(Nat)
    <3> HIDE DEF parts
    <3> QED BY <2>3, FlatOK
  <2>5. cut \in Nat /\ SubSeq(F, 1, cut) \in Seq(Nat)
    <3> HIDE DEF F
    <3> QED BY <2>4, Cut, LenProperties
  <2>6. o # NoOption /\ o.routes = rs /\ o.cut = cut
    <3>1. o \in [routes : Seq(RouteRecord), cut : Nat]
      BY <2>1, <2>2, <2>5
    <3> QED BY <2>1, <3>1, OptionsAssumption
  <2>7. Bytes(o, parts) = SubSeq(F, 1, cut)
    BY <2>6 DEF Bytes
  <2>8. SubSeq(F, 1, cut) # NoOption
    BY <2>5, OptionsAssumption
  <2> HIDE DEF parts
  <2>9. PICK n : /\ CutAfter(parts, cut, n) /\ w.routes = SubSeq(rs, 1, n)
                 /\ w.rest = cut - Len(Built(parts)[n])
    <3>1. \E n : /\ CutAfter(parts, cut, n)
                 /\ Whole([routes |-> rs, cut |-> cut], parts) =
                        [routes |-> SubSeq(rs, 1, n), rest |-> cut - Len(Built(parts)[n])]
      BY <2>1, <2>3, WholeIs
    <3> QED BY <2>1, <3>1
  <2>10. n \in 0 .. Len(rs) /\ Len(Built(parts)[n]) <= cut /\ (n < Len(rs) => Len(Built(parts)[n + 1]) > cut)
    BY <2>3, <2>9 DEF CutAfter
  <2>11. ParseCIDRRoutes(SubSeq(F, 1, cut)) =
            IF cut - Len(Built(parts)[n]) < 5 /\ \A i \in 1 .. n : rs[i].width <= 32
            THEN SubSeq(rs, 1, n) ELSE <<>>
    BY <2>1, <2>2, <2>10, ClasslessParsed DEF parts
  <2>12. Len(w.routes) = n /\ \A i \in 1 .. n : w.routes[i] = rs[i]
    BY <2>2, <2>9, <2>10, FirstOnes
  <2> HIDE DEF F, w
  <2>13. (w.rest < 5 /\ \A i \in 1 .. Len(w.routes) : w.routes[i].width <= 32) <=>
         (cut - Len(Built(parts)[n]) < 5 /\ \A i \in 1 .. n : rs[i].width <= 32)
    BY <2>9, <2>12
  <2>14. ParseCIDRRoutes(SubSeq(F, 1, cut)) =
            IF o = NoOption \/ ~ (w.rest < 5 /\ \A i \in 1 .. Len(w.routes) : w.routes[i].width <= 32)
            THEN <<>> ELSE w.routes
    BY <2>6, <2>9, <2>11, <2>13
  <2> QED BY <2>6, <2>7, <2>8, <2>14 DEF parts, w
<1> QED BY <1>1, <1>2 DEF ClasslessInput

(* RoutesAreOffered for every octet, width and number of routes: the loops *)
(* of parseRoutes and parseCIDRRoutes find the routes that the server has  *)
(* encoded, wherever the option is cut.                                    *)
THEOREM RoutesOK == Spec => []RoutesAreOffered
<1>1. Init => RoutesAreOffered
  <2> SUFFICES ASSUME StaticInput(static), ClasslessInput(classless) PROVE RoutesAreOffered
    BY OptionsOK
  <2> DEFINE sparts == StaticParts(static.routes)
             cparts == ClasslessParts(classless.routes)
             sb == Bytes(static, sparts)
             cb == Bytes(classless, cparts)
             c == Whole(classless, cparts)
             ok == c.rest < 5 /\ \A i \in 1 .. Len(c.routes) : c.routes[i].width <= 32
  <2>1. (IF sb = NoOption THEN <<>> ELSE ParseRoutes(sb)) =
        (IF static = NoOption THEN <<>> ELSE Whole(static, sparts).routes)
    BY StaticOffered
  <2>2. (IF cb = NoOption THEN <<>> ELSE ParseCIDRRoutes(cb)) =
        (IF classless = NoOption \/ ~ ok THEN <<>> ELSE c.routes)
    BY ClasslessOffered
  <2>3. Routes([static |-> sb, classless |-> cb]) =
          (IF sb = NoOption THEN <<>> ELSE ParseRoutes(sb)) \o
          (IF cb = NoOption THEN <<>> ELSE ParseCIDRRoutes(cb))
    BY DEF Routes
  <2> HIDE DEF sb, cb, sparts, cparts
  <2>4. Routes([static |-> sb, classless |-> cb]) =
          (IF static = NoOption \/ ~ TRUE THEN <<>> ELSE Whole(static, sparts).routes) \o
          (IF classless = NoOption \/ ~ ok THEN <<>> ELSE c.routes)
    BY <2>1, <2>2, <2>3
  <2> QED BY <2>4 DEF RoutesAreOffered, sb, cb, sparts, cparts
<1>2. RoutesAreOffered /\ [Next]_vars => RoutesAreOffered'
  <2> SUFFICES ASSUME RoutesAreOffered, [Next]_vars PROVE RoutesAreOffered'
    OBVIOUS
  <2>1. static' = static /\ classless' = classless
    BY DEF Next, vars
  <2> QED BY <2>1 DEF RoutesAreOffered
<1> QED BY <1>1, <1>2, PTL DEF Spec

-----------------------------------------------------------------------------
(* strings.Split undoes strings.Join                                       *)

(* Split goes over the words.                                              *)
SplitLoop(g, s, sep) ==
    /\ g[0] = << <<>> >> /\ \A i \in 0 .. Len(s) : g[i] \in Seq(Text) /\ g[i] # <<>>
    /\ \A i \in 1 .. Len(s) : g[i] = AddWord(g[i - 1], s[i], sep)
    /\ Split(s, sep) = g[Len(s)]

LEMMA SplitLoopOK ==
    ASSUME NEW s \in Text, NEW sep
    PROVE  \E g : SplitLoop(g, s, sep)
<1> DEFINE N == Len(s)
           T == {p \in Seq(Text) : p # <<>>}
           d0 == << <<>> >>
           body(g) == [i \in 0 .. N |-> IF i = 0 THEN d0 ELSE AddWord(g[i - 1], s[i], sep)]
           step == [i \in 1 .. N |-> [p \in T |-> AddWord(p, s[i], sep)]]
           f == CHOOSE g : g = body(g)
<1>1. N \in Nat /\ \A i \in 1 .. N : s[i] \in Words
  BY LenProperties, ElementOfSeq DEF Text
<1>2. Split(s, sep) = f[N]
  BY Zenon DEF Split
<1>3. ASSUME NEW p \in T, NEW w \in Words PROVE AddWord(p, w, sep) \in T
  <2>1. p \in Seq(Text) /\ p # <<>> /\ Len(p) \in Nat \ {0}
    BY EmptySeq
  <2>2. CASE w = sep
    <3>1. <<>> \in Text
      BY EmptySeq DEF Text
    <3>2. Append(p, <<>>) \in Seq(Text) /\ Append(p, <<>>) # <<>>
      BY <2>1, <3>1, AppendProperties
    <3> QED BY <2>2, <3>2 DEF AddWord
  <2>3. CASE w # sep
    <3> DEFINE e == Append(p[Len(p)], w)
               q == [p EXCEPT ![Len(p)] = e]
    <3>1. Len(p) \in 1 .. Len(p)
      BY <2>1
    <3>2. p[Len(p)] \in Text
      BY <2>1, <3>1, ElementOfSeq
    <3>3. e \in Text
      BY <3>2, AppendProperties DEF Text
    <3>4. AddWord(p, w, sep) = q
      BY <2>3 DEF AddWord
    <3> HIDE DEF e
    <3>5. q \in Seq(Text) /\ Len(q) = Len(p)
      BY <2>1, <3>1, <3>3, ExceptSeq
    <3> HIDE DEF q
    <3>6. q # <<>>
      BY <2>1, <3>5, EmptySeq
    <3> QED BY <3>4, <3>5, <3>6
  <2> QED BY <2>2, <2>3
<1>4. d0 \in T
  <2>1. <<>> \in Text
    BY EmptySeq DEF Text
  <2>2. << <<>> >> \in Seq(Text) /\ Len(<< <<>> >>) = 1
    BY <2>1
  <2>3. << <<>> >> # <<>>
    BY <2>2, EmptySeq
  <2> QED BY <2>2, <2>3
<1> HIDE DEF N, T, d0
<1>5. step \in [1 .. N -> [T -> T]]
  BY <1>1, <1>3
<1>6. PICK g : RecursUpTo(g, N, T, d0, step)
  <2> HIDE DEF step
  <2> QED BY <1>1, <1>4, <1>5, RecursionUpTo
<1>7. g = body(g)
  <2>1. ASSUME NEW i \in 0 .. N PROVE g[i] = IF i = 0 THEN d0 ELSE AddWord(g[i - 1], s[i], sep)
    <3>1. CASE i = 0
      BY <1>6, <3>1 DEF RecursUpTo
    <3>2. CASE i # 0
      <4>1. i \in 1 .. N /\ i - 1 \in 0 .. N
        BY <1>1, <3>2
      <4>2. g[i] = step[i][g[i - 1]] /\ g[i - 1] \in T
        BY <1>6, <4>1 DEF RecursUpTo
      <4> QED BY <3>2, <4>1, <4>2
    <3> QED BY <3>1, <3>2
  <2>2. g = [i \in 0 .. N |-> g[i]]
    BY <1>6 DEF RecursUpTo
  <2> QED BY <2>1, <2>2
<1>8. f = body(f)
  <2> HIDE DEF body
  <2> QED BY <1>7
<1> HIDE DEF f
<1>9. f = [i \in 0 .. N |-> f[i]] /\ f[0] = d0 /\ \A i \in 1 .. N : f[i] = AddWord(f[i - 1], s[i], sep)
  <2>1. \A i \in 0 .. N : body(f)[i] = IF i = 0 THEN d0 ELSE AddWord(f[i - 1], s[i], sep)
    OBVIOUS
  <2>2. f = [i \in 0 .. N |-> f[i]]
    BY <1>8
  <2>3. 0 \in 0 .. N /\ \A i \in 1 .. N : i \in 0 .. N /\ i # 0
    BY <1>1
  <2> HIDE DEF body
  <2> QED BY <1>8, <2>1, <2>2, <2>3
<1>10. RecursUpTo(f, N, T, d0, step)
  <2>1. ASSUME NEW i \in 1 .. N, f[i - 1] \in T PROVE f[i] = step[i][f[i - 1]]
    BY <1>9, <2>1
  <2> HIDE DEF step, body
  <2> QED BY <1>1, <1>4, <1>5, <1>9, <2>1, RecursiveFunction
<1>11. \A i \in 0 .. N : f[i] \in T
  BY <1>10 DEF RecursUpTo
<1>12. SplitLoop(f, s, sep)
  BY <1>2, <1>9, <1>11 DEF SplitLoop, N, d0, T
<1> QED BY <1>12

(* Another word for the last part.                                         *)
LEMMA LastPart ==
    ASSUME NEW prefix \in Seq(Text), NEW t \in Text, NEW w \in Words, NEW sep, w # sep
    PROVE  AddWord(Append(prefix, t), w, sep) = Append(prefix, Append(t, w))
<1> DEFINE p == Append(prefix, t)
           e == Append(t, w)
           q == Append(prefix, e)
           r == [p EXCEPT ![Len(p)] = e]
<1>1. Len(prefix) \in Nat /\ e \in Text
  BY LenProperties, AppendProperties DEF Text
<1>2. p \in Seq(Text) /\ Len(p) = Len(prefix) + 1 /\ p[Len(prefix) + 1] = t
      /\ \A i \in 1 .. Len(prefix) : p[i] = prefix[i]
  BY <1>1, AppendProperties
<1> HIDE DEF e
<1>3. q \in Seq(Text) /\ Len(q) = Len(prefix) + 1 /\ q[Len(prefix) + 1] = e
      /\ \A i \in 1 .. Len(prefix) : q[i] = prefix[i]
  BY <1>1, AppendProperties
<1> HIDE DEF p, q
<1>4. AddWord(p, w, sep) = r
  <2>1. p[Len(p)] = t
    BY <1>2
  <2> QED BY <2>1 DEF AddWord, e
<1>5. Len(p) \in 1 .. Len(p)
  BY <1>1, <1>2
<1>6. r \in Seq(Text) /\ Len(r) = Len(p) /\ \A j \in 1 .. Len(p) : r[j] = IF j = Len(p) THEN e ELSE p[j]
  BY <1>1, <1>2, <1>5, ExceptSeq
<1> HIDE DEF r
<1>7. ASSUME NEW i \in 1 .. Len(r) PROVE r[i] = q[i]
  <2>0. i \in 1 .. Len(p)
    BY <1>6
  <2>1. CASE i = Len(prefix) + 1
    BY <1>2, <1>3, <1>6, <2>0, <2>1
  <2>2. CASE i # Len(prefix) + 1
    <3>1. i \in 1 .. Len(prefix) /\ i # Len(p)
      BY <1>1, <1>2, <2>0, <2>2
    <3> QED BY <1>2, <1>3, <1>6, <2>0, <3>1
  <2> QED BY <2>1, <2>2
<1>8. r = q
  BY <1>2, <1>3, <1>6, <1>7, SeqEqual
<1> QED BY <1>4, <1>8 DEF p, q, e

(* The words of a part t that has no separator, behind the first a words.  *)
PartLies(s, sep, a, t) ==
    /\ a \in Nat /\ t \in Text /\ a + Len(t) <= Len(s)
    /\ \A k \in 1 .. Len(t) : s[a + k] = t[k] /\ t[k] # sep

PartRead(g, a, t, prefix) == g[a] = Append(prefix, <<>>) => g[a + Len(t)] = Append(prefix, t)

LEMMA PartIsSplit ==
    ASSUME NEW s \in Text, NEW sep, NEW g, SplitLoop(g, s, sep), NEW a, NEW t, PartLies(s, sep, a, t),
           NEW prefix \in Seq(Text)
    PROVE  PartRead(g, a, t, prefix)
<1> SUFFICES ASSUME g[a] = Append(prefix, <<>>) PROVE g[a + Len(t)] = Append(prefix, t)
  BY DEF PartRead
<1>0. a \in Nat /\ t \in Text
  BY DEF PartLies
<1> DEFINE m == Len(t)
           S == {k \in 0 .. m : g[a + k] = Append(prefix, SubSeq(t, 1, k))}
<1>1. m \in Nat /\ Len(s) \in Nat /\ a + m <= Len(s) /\ \A k \in 1 .. m : t[k] \in Words
  BY <1>0, LenProperties, ElementOfSeq DEF Text, PartLies
<1>2. \A k \in 1 .. m : s[a + k] = t[k] /\ t[k] # sep
  BY DEF PartLies
<1>3. SubSeq(t, 1, m) = t
  BY <1>0, SubSeqFull DEF Text
<1> HIDE DEF m
<1>4. 0 \in S
  <2>1. SubSeq(t, 1, 0) = <<>> /\ a + 0 = a
    BY <1>0, SubSeqEmpty
  <2>2. g[a] = Append(prefix, <<>>)
    OBVIOUS
  <2>3. g[a + 0] = Append(prefix, SubSeq(t, 1, 0))
    BY <2>1, <2>2
  <2>4. 0 \in 0 .. m
    BY <1>1
  <2> QED BY <2>3, <2>4
<1>5. ASSUME NEW k \in 0 .. m - 1, k \in S PROVE k + 1 \in S
  <2> DEFINE u == SubSeq(t, 1, k)
             w == t[k + 1]
  <2>1. k \in Nat /\ k + 1 \in 1 .. m /\ k + 1 \in 0 .. m /\ k + 1 <= m
        /\ a + (k + 1) \in 1 .. Len(s) /\ (a + (k + 1)) - 1 = a + k
    BY <1>0, <1>1
  <2>2. g[a + k] = Append(prefix, u)
    BY <1>5
  <2>3. g[a + (k + 1)] = AddWord(g[a + k], s[a + (k + 1)], sep)
    BY <2>1 DEF SplitLoop
  <2>4. s[a + (k + 1)] = w /\ w # sep /\ w \in Words
    BY <1>1, <1>2, <2>1
  <2>5. u \in Text
    <3>1. \A j \in 1 .. k : t[j] \in Words
      BY <1>1, <2>1
    <3>2. 1 \in Int /\ k \in Int
      BY <2>1
    <3> QED BY <3>1, <3>2, SubSeqProperties DEF Text
  <2>6. Append(u, w) = SubSeq(t, 1, k + 1)
    BY <1>0, <2>1, OneMore DEF Text, m
  <2> HIDE DEF u, w
  <2>7. g[a + (k + 1)] = Append(prefix, Append(u, w))
    <3>1. AddWord(Append(prefix, u), w, sep) = Append(prefix, Append(u, w))
      BY <2>4, <2>5, LastPart
    <3> QED BY <2>2, <2>3, <2>4, <3>1
  <2> QED BY <2>1, <2>6, <2>7
<1>6. m \in S
  <2> HIDE DEF S
  <2>1. 0 .. m \subseteq S
    BY <1>1, <1>4, <1>5, InductionUpTo
  <2> QED BY <1>1, <2>1
<1> QED BY <1>3, <1>6 DEF m

LEMMA OneWord == ASSUME NEW S, NEW x \in S PROVE <<x>> \in Seq(S) /\ Len(<<x>>) = 1 /\ <<x>>[1] = x
OBVIOUS

(* The parts with their separators, as Join has them.                      *)
Joined(parts, sep) == [i \in 1 .. Len(parts) |-> IF i = 1 THEN parts[i] ELSE <<sep>> \o parts[i]]

LEMMA JoinedOK ==
    ASSUME NEW parts \in Seq(Text), NEW sep \in Words
    PROVE  /\ Joined(parts, sep) \in Seq(Text) /\ Len(Joined(parts, sep)) = Len(parts)
           /\ Join(parts, sep) = Flat(Joined(parts, sep))
           /\ 1 \in 1 .. Len(parts) => Joined(parts, sep)[1] = parts[1]
           /\ \A i \in 1 .. Len(parts) : i # 1 =>
                 LET p == Joined(parts, sep)[i]
                 IN  /\ Len(p) = 1 + Len(parts[i]) /\ p[1] = sep
                     /\ \A k \in 1 .. Len(parts[i]) : p[1 + k] = parts[i][k]
<1> DEFINE J == Joined(parts, sep)
<1>1. Len(parts) \in Nat /\ \A i \in 1 .. Len(parts) : parts[i] \in Text
  BY LenProperties, ElementOfSeq
<1>2. ASSUME NEW i \in 1 .. Len(parts)
      PROVE  LET p == <<sep>> \o parts[i]
             IN  /\ p \in Text /\ Len(p) = 1 + Len(parts[i]) /\ p[1] = sep
                 /\ \A k \in 1 .. Len(parts[i]) : p[1 + k] = parts[i][k]
  <2> DEFINE a == <<sep>>
             b == parts[i]
             p == a \o b
  <2>1. a \in Seq(Words) /\ Len(a) = 1 /\ a[1] = sep
    BY OneWord
  <2>2. b \in Seq(Words) /\ Len(b) \in Nat
    BY <1>1, LenProperties DEF Text
  <2> HIDE DEF a, b
  <2>3. p \in Seq(Words) /\ Len(p) = Len(a) + Len(b)
        /\ \A k \in 1 .. Len(a) + Len(b) : p[k] = IF k <= Len(a) THEN a[k] ELSE b[k - Len(a)]
    BY <2>1, <2>2, ConcatProperties
  <2> HIDE DEF p
  <2>4. Len(p) = 1 + Len(b) /\ p[1] = sep
    <3>1. 1 \in 1 .. Len(a) + Len(b) /\ 1 <= Len(a)
      BY <2>1, <2>2
    <3>2. p[1] = a[1]
      BY <2>3, <3>1
    <3> QED BY <2>1, <2>3, <3>2
  <2>5. ASSUME NEW k \in 1 .. Len(b) PROVE p[1 + k] = b[k]
    <3>1. 1 + k \in 1 .. 1 + Len(b) /\ ~ (1 + k <= 1) /\ (1 + k) - 1 = k
      BY <2>2
    <3> QED BY <2>1, <2>3, <3>1
  <2> QED BY <2>3, <2>4, <2>5 DEF p, a, b, Text
<1>3. J = [i \in 1 .. Len(parts) |-> IF i = 1 THEN parts[i] ELSE <<sep>> \o parts[i]]
  BY DEF Joined
<1>4. J \in [1 .. Len(parts) -> Text]
  BY <1>1, <1>2, <1>3
<1>5. J \in Seq(Text)
  <2> HIDE DEF J
  <2> QED BY <1>1, <1>4, SeqDef
<1>6. Len(J) = Len(parts)
  <2> HIDE DEF J
  <2>1. DOMAIN J = 1 .. Len(parts) /\ DOMAIN J = 1 .. Len(J) /\ Len(J) \in Nat
    BY <1>4, <1>5, LenProperties
  <2> QED BY <1>1, <2>1
<1>7. Join(parts, sep) = Flat(J)
  BY DEF Join, Joined
<1>8. \A i \in 1 .. Len(parts) : J[i] = IF i = 1 THEN parts[i] ELSE <<sep>> \o parts[i]
  BY <1>3
<1> HIDE DEF J
<1>9. ASSUME NEW i \in 1 .. Len(parts), i # 1
      PROVE  /\ Len(J[i]) = 1 + Len(parts[i]) /\ J[i][1] = sep
             /\ \A k \in 1 .. Len(parts[i]) : J[i][1 + k] = parts[i][k]
  <2>1. J[i] = <<sep>> \o parts[i]
    BY <1>8, <1>9
  <2> QED BY <1>2, <2>1
<1> QED BY <1>5, <1>6, <1>7, <1>8, <1>9 DEF J

(* strings.Split finds the parts that strings.Join has put together, if    *)
(* there is one and none has the separator in it.                          *)
LEMMA SplitJoin ==
    ASSUME NEW parts \in Seq(Text), NEW sep \in Words, parts # <<>>,
           \A i \in 1 .. Len(parts) : Clean(parts[i], {sep})
    PROVE  Split(Join(parts, sep), sep) = parts
<1> DEFINE N == Len(parts)
           J == Joined(parts, sep)
           B == Built(J)
           s == Flat(J)
<1>1. N \in Nat \ {0} /\ \A i \in 1 .. N : parts[i] \in Text
  BY LenProperties, ElementOfSeq, EmptySeq
<1>2. /\ J \in Seq(Text) /\ Len(J) = N /\ Join(parts, sep) = s /\ J[1] = parts[1]
      /\ \A i \in 1 .. N : i # 1 =>
              /\ Len(J[i]) = 1 + Len(parts[i]) /\ J[i][1] = sep
              /\ \A k \in 1 .. Len(parts[i]) : J[i][1 + k] = parts[i][k]
  <2>1. 1 \in 1 .. N
    BY <1>1
  <2> QED BY <2>1, JoinedOK
<1>3. \A i \in 1 .. N : \A k \in 1 .. Len(parts[i]) : parts[i][k] # sep
  BY DEF Clean
<1> HIDE DEF J
<1>4. B \in [0 .. N -> Text] /\ B[0] = <<>> /\ s = B[N] /\ s \in Text
  <2>1. B \in [0 .. N -> Seq(Words)] /\ B[0] = <<>>
    BY <1>2, BuiltSteps DEF Text
  <2>2. s = B[N] /\ N \in 0 .. N
    BY <1>1, <1>2 DEF Flat
  <2> HIDE DEF B, s, N
  <2> QED BY <2>1, <2>2 DEF Text
<1> DEFINE at(i) == Len(B[i])
<1>5. ASSUME NEW i \in 1 .. N
      PROVE  /\ at(i - 1) \in Nat /\ Len(J[i]) \in Nat /\ at(i) = at(i - 1) + Len(J[i])
             /\ at(i) <= Len(s) /\ \A k \in 1 .. Len(J[i]) : s[at(i - 1) + k] = J[i][k]
  <2>1. i \in 1 .. Len(J) /\ J \in Seq(Seq(Words))
    BY <1>2 DEF Text
  <2>2. PartAt(J, i)
    BY <2>1, BuiltFrom, Zenon
  <2> QED BY <2>2 DEF PartAt
<1>6. at(0) = 0 /\ at(N) = Len(s)
  BY <1>4, EmptySeq
<1>7. PICK g : SplitLoop(g, s, sep)
  BY <1>4, SplitLoopOK
<1>8. Len(s) \in Nat
  BY <1>4, LenProperties DEF Text
<1>9. /\ g[0] = << <<>> >> /\ Split(s, sep) = g[Len(s)]
      /\ \A i \in 1 .. Len(s) : g[i] = AddWord(g[i - 1], s[i], sep)
  BY <1>7 DEF SplitLoop
<1> HIDE DEF N, B, s, at
<1> DEFINE S == {i \in 0 .. N : i # 0 => g[at(i)] = SubSeq(parts, 1, i)}
<1>10. 0 \in S
  BY <1>1
<1>11. ASSUME NEW i \in 0 .. N - 1, i \in S PROVE i + 1 \in S
  <2> DEFINE t == parts[i + 1]
             m == Len(t)
             prefix == SubSeq(parts, 1, i)
  <2>1. i \in Nat /\ i + 1 \in 1 .. N /\ (i + 1) - 1 = i /\ i + 1 \in 0 .. N /\ i + 1 # 0
    BY <1>1
  <2>2. t \in Text /\ m \in Nat
    BY <1>1, <2>1, LenProperties DEF Text
  <2>3. /\ at(i) \in Nat /\ at(i + 1) = at(i) + Len(J[i + 1]) /\ at(i + 1) <= Len(s)
        /\ \A k \in 1 .. Len(J[i + 1]) : s[at(i) + k] = J[i + 1][k]
    BY <1>5, <2>1
  <2>4. prefix \in Seq(Text)
    <3>1. \A k \in 1 .. i : parts[k] \in Text
      BY <1>1, <2>1
    <3>2. 1 \in Int /\ i \in Int
      BY <2>1
    <3> QED BY <3>1, <3>2, SubSeqProperties
  <2>5. Append(prefix, t) = SubSeq(parts, 1, i + 1)
    <3>1. i + 1 <= Len(parts)
      BY <1>1, <2>1 DEF N
    <3> QED BY <2>1, <3>1, OneMore
  <2>6. \A k \in 1 .. m : t[k] # sep
    BY <1>3, <2>1
  <2>7. CASE i = 0
    <3>1. at(i) = 0 /\ J[i + 1] = t /\ prefix = <<>>
      BY <1>2, <1>6, <2>7, SubSeqEmpty
    <3> HIDE DEF t, prefix
    <3>2. at(i + 1) = 0 + m /\ 0 + m <= Len(s) /\ \A k \in 1 .. m : s[0 + k] = t[k]
      BY <2>3, <3>1
    <3>3. g[0] = Append(prefix, <<>>)
      BY <1>9, <3>1
    <3>4. g[0 + m] = Append(prefix, t)
      <4>1. \A k \in 1 .. Len(t) : s[0 + k] = t[k] /\ t[k] # sep
        BY <2>6, <3>2
      <4>2. 0 \in Nat /\ 0 + Len(t) <= Len(s) /\ t \in Text
        BY <2>2, <3>2
      <4>3. PartLies(s, sep, 0, t)
        BY <4>1, <4>2 DEF PartLies
      <4>4. s \in Text
        BY <1>4
      <4>5. PartRead(g, 0, t, prefix)
        BY <1>7, <2>4, <4>3, <4>4, PartIsSplit, Zenon
      <4> QED BY <3>3, <4>5 DEF PartRead
    <3>5. g[at(i + 1)] = SubSeq(parts, 1, i + 1)
      BY <2>5, <3>2, <3>4
    <3> QED BY <2>1, <3>5
  <2>8. CASE i # 0
    <3> DEFINE a == at(i)
               b == a + 1
    <3>1. /\ Len(J[i + 1]) = 1 + m /\ J[i + 1][1] = sep
          /\ \A k \in 1 .. m : J[i + 1][1 + k] = t[k]
      <4>1. i + 1 # 1
        BY <2>1, <2>8
      <4> QED BY <1>2, <2>1, <4>1
    <3>2. g[a] = prefix
      BY <1>11, <2>8
    <3>3. a \in Nat /\ at(i + 1) = a + (1 + m) /\ a + (1 + m) <= Len(s)
      BY <2>3, <3>1
    <3>4. \A k \in 1 .. 1 + m : s[a + k] = J[i + 1][k]
      BY <2>3, <3>1
    <3> HIDE DEF t, prefix, a
    <3>5. s[b] = sep
      <4>1. 1 \in 1 .. 1 + m
        BY <2>2 DEF m
      <4> QED BY <3>1, <3>4, <4>1
    <3> HIDE DEF m
    <3>6. b \in Nat /\ b \in 1 .. Len(s) /\ b - 1 = a /\ b + m <= Len(s) /\ at(i + 1) = b + m
      BY <1>8, <2>2, <3>3
    <3>7. \A k \in 1 .. m : s[b + k] = t[k]
      <4>1. \A k \in 1 .. m : 1 + k \in 1 .. 1 + m /\ b + k = a + (1 + k)
        BY <2>2, <3>3
      <4> QED BY <3>1, <3>4, <4>1
    <3> HIDE DEF b
    <3>8. g[b] = Append(prefix, <<>>)
      BY <1>9, <3>2, <3>5, <3>6 DEF AddWord
    <3>9. g[b + m] = Append(prefix, t)
      <4>1. \A k \in 1 .. Len(t) : s[b + k] = t[k] /\ t[k] # sep
        BY <2>6, <3>7 DEF m
      <4>2. b \in Nat /\ b + Len(t) <= Len(s) /\ t \in Text
        BY <2>2, <3>6 DEF m
      <4>3. PartLies(s, sep, b, t)
        BY <4>1, <4>2 DEF PartLies
      <4>4. s \in Text
        BY <1>4
      <4>5. PartRead(g, b, t, prefix)
        BY <1>7, <2>4, <4>3, <4>4, PartIsSplit, Zenon
      <4> QED BY <3>8, <4>5 DEF PartRead, m
    <3>10. g[at(i + 1)] = SubSeq(parts, 1, i + 1)
      BY <2>5, <3>6, <3>9
    <3> QED BY <2>1, <3>10
  <2> QED BY <2>7, <2>8
<1>12. N \in S
  <2> HIDE DEF S
  <2>1. 0 .. N \subseteq S
    BY <1>1, <1>10, <1>11, InductionUpTo
  <2> QED BY <1>1, <2>1
<1>13. SubSeq(parts, 1, N) = parts
  BY SubSeqFull DEF N
<1> QED BY <1>1, <1>2, <1>6, <1>9, <1>12, <1>13

-----------------------------------------------------------------------------
(* The text of CNI_ARGS                                                    *)

LEMMA JoinOK == ASSUME NEW parts \in Seq(Text), NEW sep \in Words PROVE Join(parts, sep) \in Text
<1>1. Joined(parts, sep) \in Seq(Seq(Words)) /\ Join(parts, sep) = Flat(Joined(parts, sep))
  BY JoinedOK DEF Text
<1> QED BY <1>1, FlatOK DEF Text

LEMMA CleanConcat ==
    ASSUME NEW s \in Text, NEW t \in Text, NEW seps, Clean(s, seps), Clean(t, seps)
    PROVE  Clean(s \o t, seps) /\ Len(s \o t) = Len(s) + Len(t) /\ s \o t \in Text
<1>1. Len(s) \in Nat /\ Len(t) \in Nat
  BY LenProperties DEF Text
<1>2. /\ s \o t \in Seq(Words) /\ Len(s \o t) = Len(s) + Len(t)
      /\ \A i \in 1 .. Len(s) + Len(t) : (s \o t)[i] = IF i <= Len(s) THEN s[i] ELSE t[i - Len(s)]
  BY ConcatProperties DEF Text
<1>3. ASSUME NEW i \in 1 .. Len(s \o t) PROVE (s \o t)[i] \notin seps
  <2> DEFINE m == Len(s)
             n == Len(t)
  <2>1. m \in Nat /\ n \in Nat /\ i \in 1 .. m + n
    BY <1>1, <1>2
  <2>2. CASE i <= Len(s)
    <3>1. i \in 1 .. Len(s)
      BY <1>1, <2>1, <2>2
    <3> QED BY <1>2, <2>1, <2>2, <3>1 DEF Clean
  <2>3. CASE ~ (i <= Len(s))
    <3>1. i - m \in 1 .. n
      <4>1. ~ (i <= m)
        BY <2>3
      <4> HIDE DEF m, n
      <4> QED BY <2>1, <4>1
    <3> QED BY <1>2, <2>1, <2>3, <3>1 DEF Clean
  <2> QED BY <2>2, <2>3
<1> QED BY <1>2, <1>3 DEF Clean, Text

LEMMA TwoParts == ASSUME NEW p \in Text \X Text PROVE p \in Seq(Text) /\ Len(p) = 2 /\ p[1] \in Text /\ p[2] \in Text
<1>1. PICK a \in Text, b \in Text : p = <<a, b>>
  OBVIOUS
<1>2. <<a, b>> \in Seq(Text) /\ Len(<<a, b>>) = 2 /\ <<a, b>>[1] = a /\ <<a, b>>[2] = b
  OBVIOUS
<1> QED BY <1>1, <1>2

(* A pair of texts without separators.                                     *)
CleanPair(p) == p \in Text \X Text /\ \A k \in 1 .. 2 : Clean(p[k], {";", "="})

LEMMA PairJoined ==
    ASSUME NEW p, CleanPair(p)
    PROVE  LET t == Join(p, "=")
           IN  t \in Text /\ Len(t) \in Nat \ {0} /\ Clean(t, {";"}) /\ Split(t, "=") = p
<1> DEFINE J == Joined(p, "=")
           e == <<"=">>
           a == p[1]
           b == p[2]
           t == Join(p, "=")
<1>1. p \in Seq(Text) /\ Len(p) = 2 /\ a \in Text /\ b \in Text
  BY TwoParts DEF CleanPair
<1>2. Clean(a, {";", "="}) /\ Clean(b, {";", "="})
  <2>1. 1 \in 1 .. 2 /\ 2 \in 1 .. 2
    OBVIOUS
  <2> QED BY <2>1 DEF CleanPair
<1>3. e \in Text /\ Len(e) = 1 /\ Clean(e, {";"})
  <2>1. "=" \in Words
    BY TextsAssumption
  <2>2. e \in Seq(Words) /\ Len(e) = 1 /\ e[1] = "="
    BY <2>1, OneWord
  <2>3. \A i \in 1 .. 1 : i = 1
    OBVIOUS
  <2>4. "=" # ";"
    OBVIOUS
  <2> HIDE DEF e
  <2> QED BY <2>2, <2>3, <2>4 DEF Text, Clean
<1>4. Clean(a, {";"}) /\ Clean(b, {";"})
  BY <1>2 DEF Clean
<1>5. J \in Seq(Text) /\ Len(J) = 2 /\ J[1] = a /\ J[2] = e \o b /\ t = Flat(J)
  <2>1. "=" \in Words
    BY TextsAssumption
  <2>2. J \in Seq(Text) /\ Len(J) = 2 /\ t = Flat(J)
    BY <1>1, <2>1, JoinedOK
  <2>3. J[1] = a /\ J[2] = e \o b
    BY <1>1 DEF Joined
  <2> QED BY <2>2, <2>3
<1> HIDE DEF a, b, e, J
<1>6. Clean(e \o b, {";"}) /\ Len(e \o b) = 1 + Len(b) /\ e \o b \in Text
  BY <1>1, <1>3, <1>4, CleanConcat
<1>7. t = a \o (e \o b)
  <2>1. J \in Seq(Seq(Words))
    BY <1>5 DEF Text
  <2>2. Built(J)[0] = <<>> /\ \A i \in 1 .. 2 : Built(J)[i] = Built(J)[i - 1] \o J[i]
    <3>1. Built(J)[0] = <<>> /\ \A i \in 1 .. Len(J) : Built(J)[i] = Built(J)[i - 1] \o J[i]
      BY <2>1, BuiltSteps
    <3> QED BY <1>5, <3>1
  <2>3. 1 \in 1 .. 2 /\ 2 \in 1 .. 2 /\ 1 - 1 = 0 /\ 2 - 1 = 1
    OBVIOUS
  <2>4. Built(J)[1] = <<>> \o a
    BY <1>5, <2>2, <2>3
  <2>5. <<>> \o a = a
    BY <1>1, ConcatEmptySeq DEF Text
  <2>6. Built(J)[2] = a \o (e \o b)
    BY <1>5, <2>2, <2>3, <2>4, <2>5
  <2> QED BY <1>5, <2>6 DEF Flat
<1> HIDE DEF t
<1>8. Clean(t, {";"}) /\ Len(t) = Len(a) + (1 + Len(b)) /\ t \in Text
  BY <1>1, <1>4, <1>6, <1>7, CleanConcat
<1>9. Len(t) \in Nat \ {0}
  <2>1. Len(a) \in Nat /\ Len(b) \in Nat
    BY <1>1, LenProperties DEF Text
  <2>2. Len(t) = Len(a) + (1 + Len(b))
    BY <1>8
  <2> QED BY <2>1, <2>2
<1>10. Split(t, "=") = p
  <2>1. p # <<>>
    BY <1>1, EmptySeq
  <2>2. \A i \in 1 .. Len(p) : Clean(p[i], {"="})
    <3>1. \A i \in 1 .. Len(p) : i \in 1 .. 2
      BY <1>1
    <3> QED BY <3>1 DEF CleanPair, Clean
  <2>3. "=" \in Words
    BY TextsAssumption
  <2> QED BY <1>1, <2>1, <2>2, <2>3, SplitJoin DEF t
<1> QED BY <1>8, <1>9, <1>10 DEF t

(* The pairs of CNI_ARGS, as LoadArgs splits it.                           *)
SplitsInto(args, pairs) == pairs = IF args = <<>> THEN <<>> ELSE Split(args, ";")
PairTexts(l) == [i \in 1 .. Len(l) |-> Join(l[i], "=")]

LEMMA ArgsSplit ==
    ASSUME NEW l \in Seq(Text \X Text), \A i \in 1 .. Len(l) : CleanPair(l[i])
    PROVE  /\ PairTexts(l) \in Seq(Text) /\ Len(PairTexts(l)) = Len(l) /\ Stringify(l) \in Text
           /\ SplitsInto(Stringify(l), PairTexts(l))
<1> DEFINE ps == PairTexts(l)
           s == Stringify(l)
           N == Len(l)
<1>1. N \in Nat
  BY LenProperties
<1>2. ASSUME NEW i \in 1 .. N
      PROVE  LET t == Join(l[i], "=") IN t \in Text /\ Len(t) \in Nat \ {0} /\ Clean(t, {";"})
  BY PairJoined
<1>3. ps \in [1 .. N -> Text] /\ \A i \in 1 .. N : Len(ps[i]) \in Nat \ {0} /\ Clean(ps[i], {";"})
  <2>1. ps = [i \in 1 .. N |-> Join(l[i], "=")]
    BY DEF PairTexts
  <2>2. \A i \in 1 .. N : ps[i] = Join(l[i], "=")
    BY <2>1
  <2>3. ps \in [1 .. N -> Text]
    BY <1>2, <2>1
  <2> HIDE DEF ps, N
  <2> QED BY <1>2, <2>2, <2>3
<1>4. s = Join(ps, ";")
  BY DEF Stringify, PairTexts
<1> HIDE DEF ps, N
<1>5. ps \in Seq(Text)
  <2>1. ps \in [1 .. N -> Text]
    BY <1>3
  <2> QED BY <1>1, <2>1, SeqDef
<1>6. Len(ps) = N
  <2>1. DOMAIN ps = 1 .. N /\ DOMAIN ps = 1 .. Len(ps) /\ Len(ps) \in Nat
    BY <1>3, <1>5, LenProperties
  <2> QED BY <1>1, <2>1
<1>7. ";" \in Words
  BY TextsAssumption
<1>8. s \in Text
  BY <1>4, <1>5, <1>7, JoinOK
<1> DEFINE J == Joined(ps, ";")
<1>9. J \in Seq(Seq(Words)) /\ Len(J) = N /\ s = Flat(J) /\ (1 \in 1 .. N => J[1] = ps[1])
  BY <1>4, <1>5, <1>6, <1>7, JoinedOK DEF Text
<1> HIDE DEF J, s
<1>10. CASE N = 0
  <2>1. s = <<>>
    <3>1. Built(J)[0] = <<>>
      BY <1>9, BuiltSteps
    <3> QED BY <1>9, <1>10, <3>1 DEF Flat
  <2>2. ps = <<>>
    BY <1>5, <1>6, <1>10, EmptySeq
  <2> QED BY <1>5, <1>6, <1>8, <2>1, <2>2 DEF SplitsInto, ps, s, N
<1>11. CASE N # 0
  <2>1. 1 \in 1 .. N
    BY <1>1, <1>11
  <2>2. PartAt(J, 1)
    <3>1. 1 \in 1 .. Len(J) /\ J \in Seq(Seq(Words))
      BY <1>9, <2>1
    <3> QED BY <3>1, BuiltFrom, Zenon
  <2>3. Len(s) \in Nat /\ Len(s) # 0
    <3> DEFINE x == Len(Built(J)[1 - 1])
               y == Len(Built(J)[1])
               z == Len(ps[1])
               n == Len(s)
    <3>1. x \in Nat /\ y = x + z /\ y <= n /\ z \in Nat \ {0} /\ n \in Nat
      <4>1. n \in Nat
        BY <1>8, LenProperties DEF Text
      <4> QED BY <1>3, <1>9, <2>1, <2>2, <4>1 DEF PartAt
    <3> HIDE DEF x, y, z, n
    <3>2. n # 0
      BY <3>1
    <3> QED BY <3>1, <3>2 DEF n
  <2>4. s # <<>>
    BY <2>3, EmptySeq
  <2>5. ps # <<>>
    BY <1>6, <1>11, EmptySeq
  <2>6. Split(s, ";") = ps
    <3>1. \A i \in 1 .. Len(ps) : Clean(ps[i], {";"})
      BY <1>3, <1>6
    <3> QED BY <1>4, <1>5, <1>7, <2>5, <3>1, SplitJoin
  <2> QED BY <1>5, <1>6, <1>8, <2>4, <2>6 DEF SplitsInto, ps, s, N
<1> QED BY <1>10, <1>11

-----------------------------------------------------------------------------
(* The loop of LoadArgs                                                    *)

LEMMA SplitOK == ASSUME NEW s \in Text, NEW sep PROVE Split(s, sep) \in Seq(Text)
<1>1. PICK g : SplitLoop(g, s, sep)
  BY SplitLoopOK
<1>2. Len(s) \in 0 .. Len(s)
  <2>1. Len(s) \in Nat
    BY LenProperties DEF Text
  <2> QED BY <2>1
<1> QED BY <1>1, <1>2 DEF SplitLoop

LoadLoop(g, args, pairs) ==
    /\ g[0] = [IP |-> NoIP, IgnoreUnknown |-> FALSE, unknown |-> FALSE]
    /\ \A i \in 1 .. Len(pairs) : g[i] = TakePair(g[i - 1], pairs[i])
    /\ LoadArgs(args) =
          LET acc == g[Len(pairs)]
          IN  IF acc = Error THEN Error
              ELSE IF acc.unknown /\ ~ acc.IgnoreUnknown THEN Error
              ELSE [IP |-> acc.IP, IgnoreUnknown |-> acc.IgnoreUnknown]

LEMMA LoadLoopOK ==
    ASSUME NEW args, NEW pairs \in Seq(Text), SplitsInto(args, pairs)
    PROVE  \E g : LoadLoop(g, args, pairs)
<1> DEFINE N == Len(pairs)
           T == Accumulated \cup {Error}
           d0 == [IP |-> NoIP, IgnoreUnknown |-> FALSE, unknown |-> FALSE]
           body(g) == [i \in 0 .. N |-> IF i = 0 THEN d0 ELSE TakePair(g[i - 1], pairs[i])]
           step == [i \in 1 .. N |-> [v \in T |-> TakePair(v, pairs[i])]]
           f == CHOOSE g : g = body(g)
           final(acc) == IF acc = Error THEN Error
                         ELSE IF acc.unknown /\ ~ acc.IgnoreUnknown THEN Error
                         ELSE [IP |-> acc.IP, IgnoreUnknown |-> acc.IgnoreUnknown]
<1>1. N \in Nat /\ \A i \in 1 .. N : pairs[i] \in Text
  BY LenProperties, ElementOfSeq
<1>2. LoadArgs(args) = final(f[N])
  <2> DEFINE ps == IF args = <<>> THEN <<>> ELSE Split(args, ";")
             loop(p) == CHOOSE g : g = [i \in 0 .. Len(p) |-> IF i = 0 THEN d0 ELSE TakePair(g[i - 1], p[i])]
  <2>1. LoadArgs(args) = final(loop(ps)[Len(ps)])
    BY Zenon DEF LoadArgs
  <2>2. ps = pairs
    BY DEF SplitsInto
  <2>3. loop(pairs) = f
    OBVIOUS
  <2> HIDE DEF final, ps, loop, f
  <2> QED BY <2>1, <2>2, <2>3
<1>3. ASSUME NEW v \in T, NEW p \in Text PROVE TakePair(v, p) \in T
  <2> DEFINE kv == Split(p, "=")
  <2>1. kv \in Seq(Text)
    BY SplitOK
  <2> HIDE DEF kv
  <2>2. Len(kv) = 2 => kv[2] \in Text
    <3>1. Len(kv) = 2 => 2 \in 1 .. Len(kv)
      OBVIOUS
    <3> QED BY <2>1, <3>1, ElementOfSeq
  <2>3. CASE v = Error \/ Len(kv) # 2
    BY <2>3 DEF TakePair, kv
  <2>4. CASE ~ (v = Error \/ Len(kv) # 2)
    <3>1. v \in Accumulated /\ kv[2] \in Text
      BY <2>2, <2>4
    <3>2. [v EXCEPT !.unknown = TRUE] \in Accumulated
      BY <3>1 DEF Accumulated
    <3>3. [v EXCEPT !.IP = kv[2]] \in Accumulated
      BY <3>1 DEF Accumulated
    <3>4. [v EXCEPT !.IgnoreUnknown = kv[2] \in {<<"1">>, <<"true">>}] \in Accumulated
      <4>1. (kv[2] \in {<<"1">>, <<"true">>}) \in BOOLEAN
        OBVIOUS
      <4> QED BY <3>1, <4>1 DEF Accumulated
    <3>5. TakePair(v, p) \in {Error, [v EXCEPT !.unknown = TRUE], [v EXCEPT !.IP = kv[2]],
                              [v EXCEPT !.IgnoreUnknown = kv[2] \in {<<"1">>, <<"true">>}]}
      BY <2>4, Zenon DEF TakePair, kv
    <3> QED BY <3>2, <3>3, <3>4, <3>5
  <2> QED BY <2>3, <2>4
<1>4. d0 \in T
  <2>1. NoIP \in Text
    BY EmptySeq DEF NoIP, Text
  <2> QED BY <2>1 DEF Accumulated
<1> HIDE DEF N, T, d0, final
<1>5. step \in [1 .. N -> [T -> T]]
  BY <1>1, <1>3
<1>6. PICK g : RecursUpTo(g, N, T, d0, step)
  <2> HIDE DEF step
  <2> QED BY <1>1, <1>4, <1>5, RecursionUpTo
<1>7. g = body(g)
  <2>1. ASSUME NEW i \in 0 .. N PROVE g[i] = IF i = 0 THEN d0 ELSE TakePair(g[i - 1], pairs[i])
    <3>1. CASE i = 0
      BY <1>6, <3>1 DEF RecursUpTo
    <3>2. CASE i # 0
      <4>1. i \in 1 .. N /\ i - 1 \in 0 .. N
        BY <1>1, <3>2
      <4>2. g[i] = step[i][g[i - 1]] /\ g[i - 1] \in T
        BY <1>6, <4>1 DEF RecursUpTo
      <4> QED BY <3>2, <4>1, <4>2
    <3> QED BY <3>1, <3>2
  <2>2. g = [i \in 0 .. N |-> g[i]]
    BY <1>6 DEF RecursUpTo
  <2> QED BY <2>1, <2>2
<1>8. f = body(f)
  <2> HIDE DEF body
  <2> QED BY <1>7
<1> HIDE DEF f
<1>9. f[0] = d0 /\ \A i \in 1 .. N : f[i] = TakePair(f[i - 1], pairs[i])
  <2>1. \A i \in 0 .. N : body(f)[i] = IF i = 0 THEN d0 ELSE TakePair(f[i - 1], pairs[i])
    OBVIOUS
  <2>2. 0 \in 0 .. N /\ \A i \in 1 .. N : i \in 0 .. N /\ i # 0
    BY <1>1
  <2> HIDE DEF body
  <2> QED BY <1>8, <2>1, <2>2
<1>10. LoadLoop(f, args, pairs)
  BY <1>2, <1>9 DEF LoadLoop, N, d0, final
<1> QED BY <1>10

(* The last pair of a key among the first n.                               *)
LastOf(l, n, key, default) ==
    LET at == {i \in 1 .. n : l[i][1] = key}
    IN  IF at = {} THEN default ELSE l[CHOOSE i \in at : \A j \in at : j <= i][2]

LastStep(l, n, key, default) ==
    LastOf(l, n + 1, key, default) = IF l[n + 1][1] = key THEN l[n + 1][2] ELSE LastOf(l, n, key, default)

LEMMA LastOfSteps ==
    ASSUME NEW l, NEW key, NEW default
    PROVE  LastOf(l, 0, key, default) = default /\ \A n \in Nat : LastStep(l, n, key, default)
<1> DEFINE at(n) == {i \in 1 .. n : l[i][1] = key}
           best(S) == CHOOSE i \in S : \A j \in S : j <= i
           last(S) == IF S = {} THEN default ELSE l[best(S)][2]
<1>1. \A n : LastOf(l, n, key, default) = last(at(n))
  BY DEF LastOf
<1>2. at(0) = {}
  OBVIOUS
<1>3. ASSUME NEW n \in Nat
      PROVE  last(at(n + 1)) = IF l[n + 1][1] = key THEN l[n + 1][2] ELSE last(at(n))
  <2>1. CASE l[n + 1][1] = key
    <3>1. n + 1 \in at(n + 1) /\ \A j \in at(n + 1) : j <= n + 1 /\ j \in Nat
      BY <2>1
    <3> DEFINE S == at(n + 1)
    <3>2. n + 1 \in S /\ \A j \in S : j <= n + 1 /\ j \in Nat
      BY <3>1
    <3> HIDE DEF S
    <3>3. best(S) \in S /\ \A j \in S : j <= best(S)
      BY <3>2
    <3> HIDE DEF best
    <3>4. best(S) = n + 1
      BY <3>2, <3>3
    <3>5. last(S) = l[n + 1][2]
      BY <3>2, <3>4
    <3> HIDE DEF last
    <3> QED BY <2>1, <3>5 DEF S
  <2>2. CASE l[n + 1][1] # key
    <3>1. at(n + 1) = at(n)
      <4>1. \A i \in 1 .. n + 1 : i \in 1 .. n \/ i = n + 1
        OBVIOUS
      <4>2. \A i \in 1 .. n : i \in 1 .. n + 1
        OBVIOUS
      <4> QED BY <2>2, <4>1, <4>2
    <3> HIDE DEF at, last
    <3> QED BY <2>2, <3>1
  <2> QED BY <2>1, <2>2
<1>4. last({}) = default
  OBVIOUS
<1> HIDE DEF at, last
<1> QED BY <1>1, <1>2, <1>3, <1>4 DEF LastStep

(* What the first n pairs come to.                                         *)
BadUpTo(l, n) == \E i \in 1 .. n : l[i][1] \in Fields /\ ~ Valid(l[i][1], l[i][2])
UnknownUpTo(l, n) == \E i \in 1 .. n : l[i][1] \notin Fields
IgnoredUpTo(l, n) == LastOf(l, n, <<"IgnoreUnknown">>, <<"0">>) \in {<<"1">>, <<"true">>}
Taken(l, n) ==
    [IP |-> LastOf(l, n, <<"IP">>, NoIP), IgnoreUnknown |-> IgnoredUpTo(l, n), unknown |-> UnknownUpTo(l, n)]

LEMMA OneWordEqual == \A x, y : <<x>> = <<y>> <=> x = y
<1> SUFFICES ASSUME NEW x, NEW y, <<x>> = <<y>> PROVE x = y
  OBVIOUS
<1>1. <<x>>[1] = x /\ <<y>>[1] = y
  OBVIOUS
<1> QED BY <1>1

LEMMA TakenFirst ==
    ASSUME NEW l
    PROVE  ~ BadUpTo(l, 0) /\ Taken(l, 0) = [IP |-> NoIP, IgnoreUnknown |-> FALSE, unknown |-> FALSE]
<1>1. LastOf(l, 0, <<"IP">>, NoIP) = NoIP /\ LastOf(l, 0, <<"IgnoreUnknown">>, <<"0">>) = <<"0">>
  BY LastOfSteps
<1>2. "0" # "1" /\ "0" # "true"
  OBVIOUS
<1>3. <<"0">> \notin {<<"1">>, <<"true">>}
  BY <1>2, OneWordEqual
<1>4. IgnoredUpTo(l, 0) = FALSE
  BY <1>1, <1>3 DEF IgnoredUpTo
<1>5. UnknownUpTo(l, 0) = FALSE /\ BadUpTo(l, 0) = FALSE
  BY DEF UnknownUpTo, BadUpTo
<1> QED BY <1>1, <1>4, <1>5 DEF Taken

LEMMA TakenNext ==
    ASSUME NEW l, NEW n \in Nat, NEW key, NEW val, l[n + 1][1] = key, l[n + 1][2] = val
    PROVE  /\ BadUpTo(l, n + 1) <=> BadUpTo(l, n) \/ (key \in Fields /\ ~ Valid(key, val))
           /\ Taken(l, n + 1) =
                [IP |-> IF key = <<"IP">> THEN val ELSE Taken(l, n).IP,
                 IgnoreUnknown |-> IF key = <<"IgnoreUnknown">> THEN val \in {<<"1">>, <<"true">>}
                                   ELSE Taken(l, n).IgnoreUnknown,
                 unknown |-> Taken(l, n).unknown \/ key \notin Fields]
<1>1. \A i : i \in 1 .. n + 1 <=> i \in 1 .. n \/ i = n + 1
  OBVIOUS
<1>2. BadUpTo(l, n + 1) <=> BadUpTo(l, n) \/ (key \in Fields /\ ~ Valid(key, val))
  BY <1>1 DEF BadUpTo
<1>3. UnknownUpTo(l, n + 1) = (UnknownUpTo(l, n) \/ key \notin Fields)
  BY <1>1 DEF UnknownUpTo
<1>4. LastOf(l, n + 1, <<"IP">>, NoIP) = IF key = <<"IP">> THEN val ELSE LastOf(l, n, <<"IP">>, NoIP)
  <2>1. LastStep(l, n, <<"IP">>, NoIP)
    BY LastOfSteps
  <2> QED BY <2>1 DEF LastStep
<1>5. IgnoredUpTo(l, n + 1) = IF key = <<"IgnoreUnknown">> THEN val \in {<<"1">>, <<"true">>}
                              ELSE IgnoredUpTo(l, n)
  <2>1. LastOf(l, n + 1, <<"IgnoreUnknown">>, <<"0">>) =
           IF key = <<"IgnoreUnknown">> THEN val ELSE LastOf(l, n, <<"IgnoreUnknown">>, <<"0">>)
    <3>1. LastStep(l, n, <<"IgnoreUnknown">>, <<"0">>)
      BY LastOfSteps
    <3> QED BY <3>1 DEF LastStep
  <2>2. CASE key = <<"IgnoreUnknown">>
    BY <2>1, <2>2 DEF IgnoredUpTo
  <2>3. CASE key # <<"IgnoreUnknown">>
    BY <2>1, <2>3 DEF IgnoredUpTo
  <2> QED BY <2>2, <2>3
<1>6. /\ Taken(l, n).IP = LastOf(l, n, <<"IP">>, NoIP)
      /\ Taken(l, n).IgnoreUnknown = IgnoredUpTo(l, n) /\ Taken(l, n).unknown = UnknownUpTo(l, n)
  BY DEF Taken
<1>7. Taken(l, n + 1) = [IP |-> LastOf(l, n + 1, <<"IP">>, NoIP), IgnoreUnknown |-> IgnoredUpTo(l, n + 1),
                         unknown |-> UnknownUpTo(l, n + 1)]
  BY DEF Taken
<1> QED BY <1>2, <1>3, <1>4, <1>5, <1>6, <1>7

LEMMA TakeOne ==
    ASSUME NEW acc \in Accumulated, NEW text, NEW kv \in Text \X Text, Split(text, "=") = kv
    PROVE  TakePair(acc, text) =
              IF kv[1] \in Fields /\ ~ Valid(kv[1], kv[2]) THEN Error
              ELSE [IP |-> IF kv[1] = <<"IP">> THEN kv[2] ELSE acc.IP,
                    IgnoreUnknown |-> IF kv[1] = <<"IgnoreUnknown">> THEN kv[2] \in {<<"1">>, <<"true">>}
                                      ELSE acc.IgnoreUnknown,
                    unknown |-> acc.unknown \/ kv[1] \notin Fields]
<1> DEFINE k == kv[1]
           v == kv[2]
           yes == v \in {<<"1">>, <<"true">>}
<1>1. Len(kv) = 2
  BY TwoParts
<1>2. acc # Error
  BY TextsAssumption
<1>3. acc = [IP |-> acc.IP, IgnoreUnknown |-> acc.IgnoreUnknown, unknown |-> acc.unknown]
      /\ acc.unknown \in BOOLEAN
  BY DEF Accumulated
<1>4. k \in Fields <=> k \in {<<"IP">>, <<"IgnoreUnknown">>, <<"CommonArgs">>}
  BY DEF Fields
<1>a. Valid(k, v) => k = <<"IP">> \/ k = <<"IgnoreUnknown">>
  BY DEF Valid
<1>5. <<"IP">> # <<"IgnoreUnknown">>
  <2>1. "IP" # "IgnoreUnknown"
    OBVIOUS
  <2> QED BY <2>1, OneWordEqual
<1>6. TakePair(acc, text) =
         IF k \notin Fields THEN [acc EXCEPT !.unknown = TRUE]
         ELSE IF ~ Valid(k, v) THEN Error
         ELSE IF k = <<"IP">> THEN [acc EXCEPT !.IP = v]
         ELSE [acc EXCEPT !.IgnoreUnknown = yes]
  BY <1>1, <1>2 DEF TakePair
<1> HIDE DEF k, v, yes
<1>7. CASE k \notin Fields
  <2>1. TakePair(acc, text) = [IP |-> acc.IP, IgnoreUnknown |-> acc.IgnoreUnknown, unknown |-> TRUE]
    BY <1>3, <1>6, <1>7
  <2>2. (acc.unknown \/ k \notin Fields) = TRUE
    BY <1>7
  <2> QED BY <1>4, <1>7, <2>1, <2>2 DEF k, v
<1>8. CASE k \in Fields /\ ~ Valid(k, v)
  BY <1>6, <1>8 DEF k, v
<1>9. CASE k = <<"IP">> /\ Valid(k, v)
  <2>1. TakePair(acc, text) = [IP |-> v, IgnoreUnknown |-> acc.IgnoreUnknown, unknown |-> acc.unknown]
    BY <1>3, <1>4, <1>6, <1>9
  <2>2. (acc.unknown \/ k \notin Fields) = acc.unknown /\ k # <<"IgnoreUnknown">>
    BY <1>3, <1>4, <1>5, <1>9
  <2> QED BY <1>4, <1>9, <2>1, <2>2 DEF k, v
<1>10. CASE k = <<"IgnoreUnknown">> /\ Valid(k, v)
  <2>1. TakePair(acc, text) = [IP |-> acc.IP, IgnoreUnknown |-> yes, unknown |-> acc.unknown]
    BY <1>3, <1>4, <1>5, <1>6, <1>10
  <2>2. (acc.unknown \/ k \notin Fields) = acc.unknown /\ k # <<"IP">>
    BY <1>3, <1>4, <1>5, <1>10
  <2> QED BY <1>4, <1>10, <2>1, <2>2 DEF k, v, yes
<1> QED BY <1>7, <1>8, <1>9, <1>10, <1>a

(* LoadArgs of the text that stringify has made of a list of pairs.        *)
LEMMA ArgsLoaded ==
    ASSUME NEW l \in Seq(Text \X Text), \A i \in 1 .. Len(l) : CleanPair(l[i])
    PROVE  LoadArgs(Stringify(l)) =
              IF BadUpTo(l, Len(l)) \/ (UnknownUpTo(l, Len(l)) /\ ~ IgnoredUpTo(l, Len(l))) THEN Error
              ELSE [IP |-> LastOf(l, Len(l), <<"IP">>, NoIP), IgnoreUnknown |-> IgnoredUpTo(l, Len(l))]
<1> DEFINE N == Len(l)
           ps == PairTexts(l)
           args == Stringify(l)
<1>1. N \in Nat /\ \A i \in 1 .. N : l[i] \in Text \X Text
  BY LenProperties, ElementOfSeq
<1>2. ps \in Seq(Text) /\ Len(ps) = N /\ SplitsInto(args, ps)
  BY ArgsSplit
<1>3. \A i \in 1 .. N : Split(ps[i], "=") = l[i]
  <2>1. ASSUME NEW i \in 1 .. N PROVE Split(ps[i], "=") = l[i]
    <3>1. ps[i] = Join(l[i], "=")
      BY DEF PairTexts
    <3>2. CleanPair(l[i])
      OBVIOUS
    <3>3. Split(Join(l[i], "="), "=") = l[i]
      BY <3>2, PairJoined
    <3> HIDE DEF ps
    <3> QED BY <3>1, <3>3
  <2> QED BY <2>1
<1> HIDE DEF ps, N, args
<1>4. PICK g : LoadLoop(g, args, ps)
  BY <1>2, LoadLoopOK
<1>5. /\ g[0] = [IP |-> NoIP, IgnoreUnknown |-> FALSE, unknown |-> FALSE]
      /\ \A i \in 1 .. N : g[i] = TakePair(g[i - 1], ps[i])
  BY <1>2, <1>4 DEF LoadLoop
<1> DEFINE P(n) == Taken(l, n) \in Accumulated /\ g[n] = IF BadUpTo(l, n) THEN Error ELSE Taken(l, n)
           S == {n \in 0 .. N : P(n)}
<1>6. 0 \in S
  <2>1. [IP |-> NoIP, IgnoreUnknown |-> FALSE, unknown |-> FALSE] \in Accumulated
    BY EmptySeq DEF Accumulated, NoIP, Text
  <2>2. P(0)
    BY <1>5, <2>1, TakenFirst
  <2> HIDE DEF P
  <2> QED BY <1>1, <2>2
<1>7. ASSUME NEW n \in 0 .. N - 1, n \in S PROVE n + 1 \in S
  <2> DEFINE kv == l[n + 1]
             k == kv[1]
             v == kv[2]
             t == ps[n + 1]
             acc == Taken(l, n)
             new == [IP |-> IF k = <<"IP">> THEN v ELSE acc.IP,
                     IgnoreUnknown |-> IF k = <<"IgnoreUnknown">> THEN v \in {<<"1">>, <<"true">>}
                                       ELSE acc.IgnoreUnknown,
                     unknown |-> acc.unknown \/ k \notin Fields]
             wrong == k \in Fields /\ ~ Valid(k, v)
  <2>1. n \in Nat /\ n + 1 \in 1 .. N /\ n + 1 \in 0 .. N /\ (n + 1) - 1 = n
    BY <1>1
  <2>2. kv \in Text \X Text /\ Split(t, "=") = kv /\ v \in Text
    <3>1. kv \in Text \X Text /\ Split(t, "=") = kv
      BY <1>1, <1>3, <2>1
    <3> QED BY <3>1
  <2>3. acc \in Accumulated /\ g[n] = IF BadUpTo(l, n) THEN Error ELSE acc
    BY <1>7
  <2>4. g[n + 1] = TakePair(g[n], t)
    BY <1>5, <2>1
  <2>5. (BadUpTo(l, n + 1) <=> BadUpTo(l, n) \/ wrong) /\ Taken(l, n + 1) = new
    BY <2>1, TakenNext
  <2>6. TakePair(acc, t) = IF wrong THEN Error ELSE new
    BY <2>2, <2>3, TakeOne
  <2>7. new \in Accumulated
    <3>1. acc.IP \in Text /\ acc.IgnoreUnknown \in BOOLEAN /\ acc.unknown \in BOOLEAN
      BY <2>3 DEF Accumulated
    <3> DEFINE x == IF k = <<"IP">> THEN v ELSE acc.IP
               y == IF k = <<"IgnoreUnknown">> THEN v \in {<<"1">>, <<"true">>} ELSE acc.IgnoreUnknown
               z == acc.unknown \/ k \notin Fields
    <3>2. x \in Text /\ y \in BOOLEAN /\ z \in BOOLEAN
      <4> HIDE DEF acc, k, v
      <4>1. x \in Text
        BY <2>2, <3>1
      <4>2. y \in BOOLEAN
        <5> DEFINE yes == v \in {<<"1">>, <<"true">>}
        <5>0. yes \in BOOLEAN
          OBVIOUS
        <5> HIDE DEF yes
        <5>1. CASE k = <<"IgnoreUnknown">>
          <6>1. y = yes
            BY <5>1 DEF yes
          <6> HIDE DEF y
          <6> QED BY <5>0, <6>1
        <5>2. CASE k # <<"IgnoreUnknown">>
          BY <3>1, <5>2, Zenon
        <5> QED BY <5>1, <5>2
      <4>3. z \in BOOLEAN
        BY Zenon
      <4> QED BY <4>1, <4>2, <4>3
    <3> HIDE DEF x, y, z
    <3>3. [IP |-> x, IgnoreUnknown |-> y, unknown |-> z] \in Accumulated
      BY <3>2 DEF Accumulated
    <3> QED BY <3>3 DEF x, y, z
  <2> HIDE DEF acc, new, wrong, k, v, kv, t
  <2>8. g[n + 1] = IF BadUpTo(l, n + 1) THEN Error ELSE new
    <3>1. CASE BadUpTo(l, n)
      <4>1. TakePair(Error, t) = Error
        BY DEF TakePair
      <4> QED BY <2>3, <2>4, <2>5, <3>1, <4>1
    <3>2. CASE ~ BadUpTo(l, n)
      BY <2>3, <2>4, <2>5, <2>6, <3>2
    <3> QED BY <3>1, <3>2
  <2>9. P(n + 1)
    BY <2>5, <2>7, <2>8
  <2> HIDE DEF P
  <2> QED BY <2>1, <2>9
<1>8. P(N)
  <2> HIDE DEF P
  <2>1. 0 .. N \subseteq S
    <3> HIDE DEF S
    <3> QED BY <1>1, <1>6, <1>7, InductionUpTo
  <2> QED BY <1>1, <2>1
<1> DEFINE acc == g[N]
<1>9. LoadArgs(args) = IF acc = Error THEN Error
                       ELSE IF acc.unknown /\ ~ acc.IgnoreUnknown THEN Error
                       ELSE [IP |-> acc.IP, IgnoreUnknown |-> acc.IgnoreUnknown]
  BY <1>2, <1>4 DEF LoadLoop
<1>10. Taken(l, N) # Error /\ Taken(l, N).IP = LastOf(l, N, <<"IP">>, NoIP)
       /\ Taken(l, N).IgnoreUnknown = IgnoredUpTo(l, N) /\ Taken(l, N).unknown = UnknownUpTo(l, N)
  <2>1. Taken(l, N) # Error
    BY <1>8, TextsAssumption
  <2> QED BY <2>1 DEF Taken
<1>11. LoadArgs(args) =
          IF BadUpTo(l, N) \/ (UnknownUpTo(l, N) /\ ~ IgnoredUpTo(l, N)) THEN Error
          ELSE [IP |-> LastOf(l, N, <<"IP">>, NoIP), IgnoreUnknown |-> IgnoredUpTo(l, N)]
  <2>1. CASE BadUpTo(l, N)
    BY <1>8, <1>9, <2>1
  <2>2. CASE ~ BadUpTo(l, N)
    <3>1. acc = Taken(l, N)
      BY <1>8, <2>2
    <3> HIDE DEF acc
    <3> QED BY <1>9, <1>10, <2>2, <3>1
  <2> QED BY <2>1, <2>2
<1> QED BY <1>11 DEF args, N

-----------------------------------------------------------------------------
(* The environment                                                         *)

LEMMA LeastAndGreatest ==
    ASSUME NEW n \in Nat, NEW S, S \subseteq 1 .. n, S # {}
    PROVE  (\E i \in S : \A j \in S : i <= j) /\ (\E i \in S : \A j \in S : i >= j)
<1>1. \E i \in S : \A j \in S : i <= j
  <2> SUFFICES ASSUME \A i \in S : \E j \in S : ~ (i <= j) PROVE FALSE
    OBVIOUS
  <2> DEFINE R == {k \in 0 .. n : \A j \in S : j > k}
  <2>1. 0 \in R
    OBVIOUS
  <2>2. ASSUME NEW k \in 0 .. n - 1, k \in R PROVE k + 1 \in R
    <3>1. \A j \in S : j > k /\ j \in Nat
      BY <2>2
    <3>2. k + 1 \notin S
      BY <3>1
    <3>3. \A j \in S : j > k + 1
      BY <3>1, <3>2
    <3> QED BY <3>3
  <2>3. n \in R
    <3> HIDE DEF R
    <3>1. 0 .. n \subseteq R
      BY <2>1, <2>2, InductionUpTo
    <3> QED BY <3>1
  <2>4. PICK j : j \in S
    OBVIOUS
  <2>5. j > n /\ j \in 1 .. n
    BY <2>3, <2>4
  <2> QED BY <2>5
<1>2. \E i \in S : \A j \in S : i >= j
  <2> SUFFICES ASSUME \A i \in S : \E j \in S : ~ (i >= j) PROVE FALSE
    OBVIOUS
  <2> DEFINE R == {k \in 0 .. n : \A j \in S : j < (n + 1) - k}
  <2>1. 0 \in R
    OBVIOUS
  <2>2. ASSUME NEW k \in 0 .. n - 1, k \in R PROVE k + 1 \in R
    <3>1. \A j \in S : j < (n + 1) - k /\ j \in Nat
      BY <2>2
    <3>2. n - k \notin S
      BY <3>1
    <3>3. \A j \in S : j < (n + 1) - (k + 1)
      BY <3>1, <3>2
    <3> QED BY <3>3
  <2>3. n \in R
    <3> HIDE DEF R
    <3>1. 0 .. n \subseteq R
      BY <2>1, <2>2, InductionUpTo
    <3> QED BY <3>1
  <2>4. PICK j : j \in S
    OBVIOUS
  <2>5. j < (n + 1) - n /\ j \in 1 .. n
    BY <2>3, <2>4
  <2> QED BY <2>5
<1> QED BY <1>1, <1>2

(* What is found is the value of some variable of the name.                *)
LEMMA Found ==
    ASSUME NEW env, NEW name, NEW first \in BOOLEAN, Len(env) \in Nat,
           NEW i \in 1 .. Len(env), env[i][1] = name
    PROVE  \E j \in 1 .. Len(env) :
              env[j][1] = name /\ Getenv(env, name, first) = env[j][2] /\ (~ first => i <= j)
<1> DEFINE at == {j \in 1 .. Len(env) : env[j][1] = name}
           best == IF first THEN CHOOSE j \in at : \A k \in at : j <= k
                   ELSE CHOOSE j \in at : \A k \in at : j >= k
<1>1. at \subseteq 1 .. Len(env) /\ i \in at /\ at # {}
  OBVIOUS
<1>2. Getenv(env, name, first) = env[best][2]
  BY <1>1 DEF Getenv
<1>3. \A j \in at : j \in 1 .. Len(env) /\ env[j][1] = name
  OBVIOUS
<1> HIDE DEF at
<1>4. (\E j \in at : \A k \in at : j <= k) /\ (\E j \in at : \A k \in at : j >= k)
  BY <1>1, LeastAndGreatest
<1>5. best \in at /\ (~ first => \A k \in at : best >= k)
  <2>1. CASE first
    BY <1>4, <2>1
  <2>2. CASE ~ first
    BY <1>4, <2>2
  <2> QED BY <2>1, <2>2
<1> HIDE DEF best
<1>6. ~ first => i <= best
  BY <1>1, <1>3, <1>5
<1> QED BY <1>2, <1>3, <1>5, <1>6

(* The variables that AsEnv adds.                                          *)
Added ==
    << <<"CNI_COMMAND", action>>, <<"CNI_CONTAINERID", rt.ContainerID>>,
       <<"CNI_NETNS", rt.NetNS>>, <<"CNI_ARGS", Stringify(rt.Args)>>,
       <<"CNI_IFNAME", rt.IfName>>, <<"CNI_PATH", Join(path, ":")>> >>

Runtime ==
    /\ action \in {<<"ADD">>, <<"DEL">>}
    /\ rt \in [ContainerID : Text, NetNS : Text, IfName : Text, Args : Seq(Text \X Text)]
    /\ path \in Seq(Text) /\ ambient \in Seq(Words \X Text)

LEMMA StringifyOK == ASSUME NEW l \in Seq(Text \X Text) PROVE Stringify(l) \in Text
<1> DEFINE ps == [i \in 1 .. Len(l) |-> Join(l[i], "=")]
<1>1. Len(l) \in Nat /\ \A i \in 1 .. Len(l) : l[i] \in Text \X Text
  BY LenProperties, ElementOfSeq
<1>2. "=" \in Words /\ ";" \in Words
  BY TextsAssumption
<1>3. \A i \in 1 .. Len(l) : Join(l[i], "=") \in Text
  BY <1>1, <1>2, TwoParts, JoinOK
<1>4. ps \in [1 .. Len(l) -> Text]
  BY <1>3
<1>5. Stringify(l) = Join(ps, ";")
  BY DEF Stringify
<1> HIDE DEF ps
<1>6. ps \in Seq(Text)
  BY <1>1, <1>4, SeqDef
<1> QED BY <1>2, <1>5, <1>6, JoinOK

LEMMA AddedOK ==
    ASSUME Runtime
    PROVE  /\ Added \in Seq(Words \X Text) /\ Len(Added) = 6
           /\ \A j, k \in 1 .. 6 : Added[j][1] = Added[k][1] => j = k
<1>1. action \in Text
  <2>1. "ADD" \in Words /\ "DEL" \in Words
    BY TextsAssumption
  <2>2. <<"ADD">> \in Seq(Words) /\ <<"DEL">> \in Seq(Words)
    BY <2>1, OneWord
  <2> QED BY <2>2 DEF Runtime, Text
<1>2. rt.ContainerID \in Text /\ rt.NetNS \in Text /\ rt.IfName \in Text /\ rt.Args \in Seq(Text \X Text)
  BY DEF Runtime
<1>3. Stringify(rt.Args) \in Text
  BY <1>2, StringifyOK
<1>4. Join(path, ":") \in Text
  <2>1. ":" \in Words
    BY TextsAssumption
  <2> QED BY <2>1, JoinOK DEF Runtime
<1>5. Names \subseteq Words
  BY TextsAssumption
<1> DEFINE a == <<"CNI_COMMAND", action>>
           b == <<"CNI_CONTAINERID", rt.ContainerID>>
           c == <<"CNI_NETNS", rt.NetNS>>
           d == <<"CNI_ARGS", Stringify(rt.Args)>>
           e == <<"CNI_IFNAME", rt.IfName>>
           f == <<"CNI_PATH", Join(path, ":")>>
           T == Words \X Text
<1>6. a \in T /\ b \in T /\ c \in T /\ d \in T /\ e \in T /\ f \in T
  BY <1>1, <1>2, <1>3, <1>4, <1>5 DEF Names
<1>7. /\ a[1] = "CNI_COMMAND" /\ b[1] = "CNI_CONTAINERID" /\ c[1] = "CNI_NETNS"
      /\ d[1] = "CNI_ARGS" /\ e[1] = "CNI_IFNAME" /\ f[1] = "CNI_PATH"
  OBVIOUS
<1>8. Added = <<a, b, c, d, e, f>>
  BY DEF Added
<1> HIDE DEF a, b, c, d, e, f, T
<1>9. <<a, b, c, d, e, f>> \in Seq(T) /\ Len(<<a, b, c, d, e, f>>) = 6
  BY <1>6
<1>10. Added[1] = a /\ Added[2] = b /\ Added[3] = c /\ Added[4] = d /\ Added[5] = e /\ Added[6] = f
  BY <1>8
<1>11. ASSUME NEW j \in 1 .. 6, NEW k \in 1 .. 6, Added[j][1] = Added[k][1] PROVE j = k
  <2>1. \A i \in 1 .. 6 : i = 1 \/ i = 2 \/ i = 3 \/ i = 4 \/ i = 5 \/ i = 6
    OBVIOUS
  <2> QED BY <1>7, <1>10, <1>11, <2>1
<1> QED BY <1>8, <1>9, <1>11 DEF T

(* Every variable that the runtime sets has the value that it sets,        *)
(* whichever of several values counts.                                     *)
LEMMA EnvOK ==
    ASSUME Runtime, Unambiguous, NEW k \in 1 .. 6, NEW first \in BOOLEAN
    PROVE  Getenv(AsEnv, Added[k][1], first) = Added[k][2]
<1> DEFINE L == Len(ambient)
           T == Words \X Text
           name == Added[k][1]
<1>1. ambient \in Seq(T) /\ Added \in Seq(T) /\ Len(Added) = 6 /\ L \in Nat
  BY AddedOK, LenProperties DEF Runtime
<1>2. \A i \in 1 .. 6 : Added[i][1] = name => i = k
  BY AddedOK
<1>3. AsEnv = ambient \o Added
  BY DEF AsEnv, Added
<1>4. /\ Len(AsEnv) = L + 6
      /\ \A i \in 1 .. L + 6 : AsEnv[i] = IF i <= L THEN ambient[i] ELSE Added[i - L]
  <2> HIDE DEF T
  <2>1. /\ Len(ambient \o Added) = Len(ambient) + Len(Added)
        /\ \A i \in 1 .. Len(ambient) + Len(Added) :
              (ambient \o Added)[i] = IF i <= Len(ambient) THEN ambient[i] ELSE Added[i - Len(ambient)]
    BY <1>1, ConcatProperties
  <2> QED BY <1>1, <1>3, <2>1
<1> HIDE DEF L, T
<1>5. L + k \in 1 .. Len(AsEnv) /\ AsEnv[L + k] = Added[k] /\ Len(AsEnv) \in Nat
  <2>1. L + k \in 1 .. L + 6 /\ ~ (L + k <= L) /\ (L + k) - L = k
    BY <1>1
  <2> QED BY <1>1, <1>4, <2>1
<1>6. AsEnv[L + k][1] = name
  BY <1>5
<1>7. ASSUME NEW j \in 1 .. L + 6, AsEnv[j][1] = name, ~ (j <= L) PROVE AsEnv[j][2] = Added[k][2]
  <2>1. AsEnv[j] = Added[j - L] /\ j - L \in 1 .. 6
    BY <1>1, <1>4, <1>7
  <2>2. j - L = k
    BY <1>2, <1>7, <2>1
  <2> QED BY <2>1, <2>2
<1> HIDE DEF name
<1>8. Getenv(AsEnv, name, FALSE) = Added[k][2]
  <2>1. PICK j \in 1 .. Len(AsEnv) :
            AsEnv[j][1] = name /\ Getenv(AsEnv, name, FALSE) = AsEnv[j][2] /\ L + k <= j
    <3>1. \E j \in 1 .. Len(AsEnv) :
              AsEnv[j][1] = name /\ Getenv(AsEnv, name, FALSE) = AsEnv[j][2] /\ (~ FALSE => L + k <= j)
      BY <1>5, <1>6, Found
    <3> QED BY <3>1
  <2>2. j \in 1 .. L + 6 /\ ~ (j <= L)
    BY <1>1, <1>4, <2>1
  <2> QED BY <1>7, <2>1, <2>2
<1>9. PICK j \in 1 .. Len(AsEnv) : AsEnv[j][1] = name /\ Getenv(AsEnv, name, first) = AsEnv[j][2]
  <2>1. \E j \in 1 .. Len(AsEnv) :
            AsEnv[j][1] = name /\ Getenv(AsEnv, name, first) = AsEnv[j][2] /\ (~ first => L + k <= j)
    BY <1>5, <1>6, Found
  <2> QED BY <2>1
<1>10. CASE j <= L
  <2>1. j \in 1 .. L /\ AsEnv[j] = ambient[j]
    BY <1>1, <1>4, <1>9, <1>10
  <2>2. name \in Names
    <3>1. k = 1 \/ k = 2 \/ k = 3 \/ k = 4 \/ k = 5 \/ k = 6
      OBVIOUS
    <3> QED BY <3>1 DEF name, Added, Names
  <2>3. ambient[j][2] = Getenv(AsEnv, name, FALSE)
    BY <1>9, <2>1, <2>2 DEF Unambiguous, L
  <2> QED BY <1>8, <1>9, <2>1, <2>3 DEF name
<1>11. CASE ~ (j <= L)
  BY <1>4, <1>7, <1>9, <1>11 DEF name
<1> QED BY <1>10, <1>11

-----------------------------------------------------------------------------
(* ParametersArrive                                                        *)

(* The variables by their names.                                           *)
LEMMA VariablesOK ==
    ASSUME Runtime, Unambiguous, NEW first \in BOOLEAN
    PROVE  /\ Getenv(AsEnv, "CNI_COMMAND", first) = action
           /\ Getenv(AsEnv, "CNI_CONTAINERID", first) = rt.ContainerID
           /\ Getenv(AsEnv, "CNI_NETNS", first) = rt.NetNS
           /\ Getenv(AsEnv, "CNI_ARGS", first) = Stringify(rt.Args)
           /\ Getenv(AsEnv, "CNI_IFNAME", first) = rt.IfName
           /\ Getenv(AsEnv, "CNI_PATH", first) = Join(path, ":")
<1>1. \A k \in 1 .. 6 : Getenv(AsEnv, Added[k][1], first) = Added[k][2]
  BY EnvOK
<1>2. /\ Added[1] = <<"CNI_COMMAND", action>> /\ Added[2] = <<"CNI_CONTAINERID", rt.ContainerID>>
      /\ Added[3] = <<"CNI_NETNS", rt.NetNS>> /\ Added[4] = <<"CNI_ARGS", Stringify(rt.Args)>>
      /\ Added[5] = <<"CNI_IFNAME", rt.IfName>> /\ Added[6] = <<"CNI_PATH", Join(path, ":")>>
  BY DEF Added
<1>3. 1 \in 1 .. 6 /\ 2 \in 1 .. 6 /\ 3 \in 1 .. 6 /\ 4 \in 1 .. 6 /\ 5 \in 1 .. 6 /\ 6 \in 1 .. 6
  OBVIOUS
<1>4. \A x, y : <<x, y>>[1] = x /\ <<x, y>>[2] = y
  OBVIOUS
<1> QED BY <1>1, <1>2, <1>3, <1>4

LEMMA EnvironmentOK ==
    ASSUME Runtime, Unambiguous, NEW first \in BOOLEAN,
           \A i \in 1 .. Len(path) : Clean(path[i], {":"})
    PROVE  EnvironmentArrives(first)
<1> DEFINE env == AsEnv
           p == Join(path, ":")
           args == [n \in Names |-> Getenv(env, n, first)]
           got == PluginMain(env, first)
           needed == {rt.IfName, p} \cup (IF action = <<"ADD">> THEN {rt.NetNS} ELSE {})
           hl == <<"host-local">>
<1>1. /\ args["CNI_COMMAND"] = action /\ args["CNI_CONTAINERID"] = rt.ContainerID
      /\ args["CNI_NETNS"] = rt.NetNS /\ args["CNI_ARGS"] = Stringify(rt.Args)
      /\ args["CNI_IFNAME"] = rt.IfName /\ args["CNI_PATH"] = p
  BY VariablesOK DEF Names
<1>2. args \in [Names -> Text]
  <2>1. \A k \in 1 .. 6 : Added[k] \in Words \X Text
    BY AddedOK, ElementOfSeq
  <2>2. /\ action \in Text /\ rt.ContainerID \in Text /\ rt.NetNS \in Text
        /\ Stringify(rt.Args) \in Text /\ rt.IfName \in Text /\ p \in Text
    <3>1. /\ Added[1] = <<"CNI_COMMAND", action>> /\ Added[2] = <<"CNI_CONTAINERID", rt.ContainerID>>
          /\ Added[3] = <<"CNI_NETNS", rt.NetNS>> /\ Added[4] = <<"CNI_ARGS", Stringify(rt.Args)>>
          /\ Added[5] = <<"CNI_IFNAME", rt.IfName>> /\ Added[6] = <<"CNI_PATH", p>>
      BY DEF Added
    <3>2. 1 \in 1 .. 6 /\ 2 \in 1 .. 6 /\ 3 \in 1 .. 6 /\ 4 \in 1 .. 6 /\ 5 \in 1 .. 6 /\ 6 \in 1 .. 6
      OBVIOUS
    <3>3. \A x, y : <<x, y>> \in Words \X Text => y \in Text
      OBVIOUS
    <3> QED BY <2>1, <3>1, <3>2, <3>3
  <2>3. \A n \in Names : args[n] \in Text
    BY <1>1, <2>2 DEF Names
  <2>4. args = [n \in Names |-> args[n]]
    OBVIOUS
  <2> HIDE DEF args
  <2> QED BY <2>3, <2>4
<1>3. args # Error
  BY <1>2, TextsAssumption
<1>4. <<"ADD">> # <<"DEL">>
  <2>1. "ADD" # "DEL"
    OBVIOUS
  <2> QED BY <2>1, OneWordEqual
<1>5. got = IF args["CNI_COMMAND"] \notin {<<"ADD">>, <<"DEL">>}
               \/ \E n \in Required(args["CNI_COMMAND"]) : args[n] = <<>>
            THEN Error ELSE args
  BY DEF PluginMain
<1> HIDE DEF args, got
<1>6. got = IF \E n \in Required(action) : args[n] = <<>> THEN Error ELSE args
  <2>1. action \in {<<"ADD">>, <<"DEL">>}
    BY DEF Runtime
  <2> QED BY <1>1, <1>5, <2>1
<1>7. (\E n \in Required(action) : args[n] = <<>>) <=> <<>> \in needed
  <2>1. CASE action = <<"ADD">>
    <3>1. Required(action) = {"CNI_NETNS", "CNI_IFNAME", "CNI_PATH"}
      BY <2>1 DEF Required
    <3>2. needed = {rt.IfName, p, rt.NetNS}
      BY <2>1
    <3> HIDE DEF p, needed
    <3> QED BY <1>1, <3>1, <3>2
  <2>2. CASE action = <<"DEL">>
    <3>1. Required(action) = {"CNI_IFNAME", "CNI_PATH"}
      BY <1>4, <2>2 DEF Required
    <3>2. needed = {rt.IfName, p}
      BY <1>4, <2>2
    <3> HIDE DEF p, needed
    <3> QED BY <1>1, <3>1, <3>2
  <2> QED BY <2>1, <2>2 DEF Runtime
<1>8. got = Error <=> <<>> \in needed
  <2> HIDE DEF needed
  <2> QED BY <1>3, <1>6, <1>7
<1>9. ASSUME got # Error
      PROVE  /\ got["CNI_COMMAND"] = action /\ got["CNI_CONTAINERID"] = rt.ContainerID
             /\ got["CNI_NETNS"] = rt.NetNS /\ got["CNI_IFNAME"] = rt.IfName
             /\ DelegatePath(env, first, action, hl) = FindInPath(hl, path)
  <2>1. got = args
    BY <1>6, <1>9
  <2>2. p # <<>>
    BY <1>8, <1>9
  <2>3. path \in Seq(Text) /\ ":" \in Words
    BY TextsAssumption DEF Runtime
  <2>4. path # <<>>
    <3> SUFFICES ASSUME path = <<>> PROVE p = <<>>
      BY <2>2
    <3> DEFINE J == Joined(path, ":")
    <3>1. J \in Seq(Text) /\ Len(J) = Len(path) /\ p = Flat(J)
      BY <2>3, JoinedOK
    <3>2. Len(path) = 0
      BY EmptySeq
    <3>3. J \in Seq(Seq(Words))
      BY <3>1 DEF Text
    <3> HIDE DEF J, p
    <3>4. Built(J)[0] = <<>>
      BY <3>3, BuiltSteps
    <3> QED BY <3>1, <3>2, <3>4 DEF Flat
  <2>5. Split(p, ":") = path
    BY <2>3, <2>4, SplitJoin
  <2>6. Getenv(env, "CNI_COMMAND", first) = action /\ Getenv(env, "CNI_PATH", first) = p
    BY VariablesOK
  <2> HIDE DEF p, env
  <2>7. DelegatePath(env, first, action, hl) = FindInPath(hl, path)
    BY <2>5, <2>6 DEF DelegatePath
  <2> QED BY <1>1, <2>1, <2>7
<1> QED BY <1>8, <1>9 DEF EnvironmentArrives, got

LEMMA ArgumentsOK ==
    ASSUME Runtime, Unambiguous, NEW first \in BOOLEAN,
           \A i \in 1 .. Len(rt.Args) : \A k \in 1 .. 2 : Clean(rt.Args[i][k], {";", "="})
    PROVE  ArgumentsArrive(first)
<1> DEFINE l == rt.Args
           N == Len(l)
<1>1. l \in Seq(Text \X Text)
  BY DEF Runtime
<1>2. \A i \in 1 .. N : CleanPair(l[i])
  BY <1>1, ElementOfSeq DEF CleanPair
<1>3. Getenv(AsEnv, "CNI_ARGS", first) = Stringify(l)
  BY VariablesOK
<1>4. LoadArgs(Stringify(l)) =
         IF BadUpTo(l, N) \/ (UnknownUpTo(l, N) /\ ~ IgnoredUpTo(l, N)) THEN Error
         ELSE [IP |-> LastOf(l, N, <<"IP">>, NoIP), IgnoreUnknown |-> IgnoredUpTo(l, N)]
  BY <1>1, <1>2, ArgsLoaded
<1>5. \A key, default : LastValue(key, default) = LastOf(l, N, key, default)
  BY DEF LastValue, LastOf
<1>6. LoadArgs(Getenv(AsEnv, "CNI_ARGS", first)) =
         IF BadUpTo(l, N) \/ (UnknownUpTo(l, N) /\ ~ (LastValue(<<"IgnoreUnknown">>, <<"0">>) \in {<<"1">>, <<"true">>}))
         THEN Error
         ELSE [IP |-> LastValue(<<"IP">>, NoIP),
               IgnoreUnknown |-> LastValue(<<"IgnoreUnknown">>, <<"0">>) \in {<<"1">>, <<"true">>}]
  BY <1>3, <1>4, <1>5 DEF IgnoredUpTo
<1> QED BY <1>6 DEF ArgumentsArrive, BadUpTo, UnknownUpTo

(* ParametersArrive for every list of words, pair, directory and variable  *)
(* of the runtime: strings.Split gives back what strings.Join has put      *)
(* together, so a plugin, its delegate and its IPAM plugin get what        *)
(* CNIConfig.args was given.                                               *)
THEOREM ParametersOK == Spec => []ParametersArrive
<1>1. Init => Runtime
  <2>1. RuntimeInputs => Runtime
    <3> SUFFICES ASSUME RuntimeInputs PROVE Runtime
      OBVIOUS
    <3>1. path \in Seq(Text) /\ ambient \in Seq(Words \X Text) /\ action \in {<<"ADD">>, <<"DEL">>}
      BY TextsAssumption DEF RuntimeInputs
    <3>2. rt \in [ContainerID : Text, NetNS : Text, IfName : Text, Args : Seq(Text \X Text)]
      BY TextsAssumption DEF RuntimeInputs
    <3> QED BY <3>1, <3>2 DEF Runtime
  <2>2. NoRuntime => Runtime
    BY EmptySeq DEF NoRuntime, Runtime, Text
  <2> QED BY <2>1, <2>2 DEF Init
<1>2. Runtime /\ [Next]_vars => Runtime'
  BY DEF Runtime, Next, vars
<1>3. Runtime => ParametersArrive
  BY EnvironmentOK, ArgumentsOK DEF ParametersArrive
<1> QED BY <1>1, <1>2, <1>3, PTL DEF Spec
=============================================================================
