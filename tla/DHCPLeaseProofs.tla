-------------------------- MODULE DHCPLeaseProofs --------------------------
(***************************************************************************)
(* That an expired lease does not keep its interface for longer than the   *)
(* retries can last, that maintenance ends for a reason, and that renewing *)
(* is due in time, for any number of tries, any delays and any lease       *)
(* times.  The bound on the retries is a recursive function, so the module *)
(* first shows that the two recursive functions of DHCPLease are what      *)
(* their equations say.  Before that, the times that commit derives from   *)
(* an ACK.                                                                 *)
(***************************************************************************)
EXTENDS DHCPLease, Induction, TLAPS

-----------------------------------------------------------------------------
(* The times of commit                                                     *)

(* A Duration that is in range does not wrap around.                       *)
LEMMA NoWrap ==
    ASSUME HalfRange \in Nat, NEW n \in Nat, n < HalfRange
    PROVE  Wrap(n) = n
<1>1. n + HalfRange \in 0 .. 2 * HalfRange - 1
  OBVIOUS
<1>2. \A m \in Nat \ {0} : \A x \in 0 .. m - 1 : x % m = x
  BY Z3
<1>3. (n + HalfRange) % (2 * HalfRange) = n + HalfRange
  BY <1>1, <1>2
<1> QED
  BY <1>3 DEF Wrap

(* The default rebinding time lies between half the lease time, which is   *)
(* the default renewal time, and the lease time.                           *)
LEMMA Defaults ==
    ASSUME NEW lease \in Nat
    PROVE  /\ (lease * 85) \div 100 \in Nat /\ lease \div 2 \in Nat
           /\ lease \div 2 <= (lease * 85) \div 100 /\ (lease * 85) \div 100 <= lease
OBVIOUS

(* If 85 times the lease time does not overflow, renewing and rebinding    *)
(* begin while the lease is valid, and renewing begins first, unless the   *)
(* server sends a rebinding time below half the lease time and no renewal  *)
(* time that can be used with it.                                          *)
THEOREM TimesWithinLease ==
    ASSUME HalfRange \in Nat, Missing \notin Nat,
           NEW lease \in Nat, lease * 85 < HalfRange,
           NEW t1 \in Nat \cup {Missing}, NEW t2 \in Nat \cup {Missing}
    PROVE  LET rb == RebindingTime(lease, t2)
               rn == RenewalTime(lease, t1, t2)
           IN  /\ rb \in 0 .. lease /\ rn \in 0 .. lease
               /\ rn > rb => /\ t1 = Missing \/ t1 > rb
                             /\ t2 # Missing /\ t2 < lease \div 2
<1>1. RebindingTime(lease, t2) =
        IF t2 = Missing \/ t2 > lease THEN (lease * 85) \div 100 ELSE t2
  BY NoWrap, lease * 85 \in Nat DEF RebindingTime, Quot
<1> QED
  BY <1>1, Defaults DEF RenewalTime

-----------------------------------------------------------------------------
(* The recursive functions of the retries                                  *)

(* The delays of backoffRetry satisfy the equation that defines them.      *)
LEMMA DelayEquation ==
    DelayAt = [i \in Nat |-> IF i = 0 THEN ResendDelay0
                             ELSE IF DelayAt[i - 1] < ResendDelayMax THEN 2 * DelayAt[i - 1]
                             ELSE DelayAt[i - 1]]
<1> DEFINE body(g) == [i \in Nat |-> IF i = 0 THEN ResendDelay0
                                     ELSE IF g[i - 1] < ResendDelayMax THEN 2 * g[i - 1]
                                     ELSE g[i - 1]]
<1>1. DelayAt = CHOOSE g : g = body(g)
  BY Zenon DEF DelayAt
<1>2. \E g : g = body(g)
  <2> DEFINE step == [n \in Nat |-> [v \in Nat |-> IF v < ResendDelayMax THEN 2 * v ELSE v]]
  <2>1. step \in [Nat -> [Nat -> Nat]] /\ ResendDelay0 \in Nat
    BY TimeAssumption
  <2>2. PICK g \in [Nat -> Nat] : g[0] = ResendDelay0 /\ \A n \in Nat : g[n + 1] = step[n][g[n]]
    <3> HIDE DEF step
    <3>1. \E g : Recurs(g, Nat, ResendDelay0, step)
      BY <2>1, Recursion
    <3> QED BY <3>1 DEF Recurs
  <2>3. ASSUME NEW i \in Nat PROVE g[i] = body(g)[i]
    <3>1. CASE i = 0
      BY <3>1, <2>2
    <3>2. CASE i # 0
      <4>1. i - 1 \in Nat /\ (i - 1) + 1 = i
        BY <3>2
      <4>2. g[i] = step[i - 1][g[i - 1]]
        BY <4>1, <2>2
      <4> QED BY <4>1, <4>2, <3>2
    <3> QED BY <3>1, <3>2
  <2>4. g = body(g)
    BY <2>3
  <2> QED BY <2>4
<1> HIDE DEF body
<1>3. DelayAt = body(DelayAt)
  BY <1>1, <1>2
<1> QED BY <1>3 DEF body

(* Every delay is at least the first one, and doubles below the maximum.   *)
LEMMA Delays ==
    /\ DelayAt \in [Nat -> Nat] /\ DelayAt[0] = ResendDelay0
    /\ \A n \in Nat : /\ DelayAt[n] >= ResendDelay0
                      /\ DelayAt[n + 1] = IF DelayAt[n] < ResendDelayMax THEN 2 * DelayAt[n]
                                          ELSE DelayAt[n]
<1>1. DelayAt[0] = ResendDelay0
  BY DelayEquation, Zenon
<1>2. ASSUME NEW n \in Nat
      PROVE  DelayAt[n + 1] = IF DelayAt[n] < ResendDelayMax THEN 2 * DelayAt[n] ELSE DelayAt[n]
  <2>1. n + 1 \in Nat /\ n + 1 # 0 /\ (n + 1) - 1 = n
    OBVIOUS
  <2> QED BY <2>1, DelayEquation
<1> DEFINE S == {n \in Nat : DelayAt[n] \in Nat /\ DelayAt[n] >= ResendDelay0}
<1>3. 0 \in S
  BY <1>1, TimeAssumption
<1>4. ASSUME NEW n \in Nat, n \in S PROVE n + 1 \in S
  BY <1>2, <1>4, TimeAssumption
<1>5. Nat \subseteq S
  <2> HIDE DEF S
  <2> QED BY <1>3, <1>4, SetInduction
<1>6. DelayAt \in [Nat -> Nat]
  <2>1. \A n \in Nat : DelayAt[n] \in Nat
    BY <1>5
  <2>2. DelayAt = [n \in Nat |-> DelayAt[n]]
    BY DelayEquation, Zenon
  <2> QED BY <2>1, <2>2
<1> QED BY <1>1, <1>2, <1>5, <1>6

(* So does the time that a number of tries takes beyond their packets.     *)
LEMMA RetryEquation ==
    RetryTime = [i \in Nat |-> IF i = 0 THEN 0 ELSE RetryTime[i - 1] + DelayAt[i - 1] + Jitter]
<1> DEFINE body(g) == [i \in Nat |-> IF i = 0 THEN 0 ELSE g[i - 1] + DelayAt[i - 1] + Jitter]
<1>1. RetryTime = CHOOSE g : g = body(g)
  BY Zenon DEF RetryTime
<1>2. \E g : g = body(g)
  <2> DEFINE step == [n \in Nat |-> [v \in Nat |-> v + DelayAt[n] + Jitter]]
  <2>1. step \in [Nat -> [Nat -> Nat]]
    BY TimeAssumption, Delays
  <2>2. PICK g \in [Nat -> Nat] : g[0] = 0 /\ \A n \in Nat : g[n + 1] = step[n][g[n]]
    <3> HIDE DEF step
    <3>1. \E g : Recurs(g, Nat, 0, step)
      BY <2>1, Recursion
    <3> QED BY <3>1 DEF Recurs
  <2>3. ASSUME NEW i \in Nat PROVE g[i] = body(g)[i]
    <3>1. CASE i = 0
      BY <3>1, <2>2
    <3>2. CASE i # 0
      <4>1. i - 1 \in Nat /\ (i - 1) + 1 = i
        BY <3>2
      <4>2. g[i] = step[i - 1][g[i - 1]]
        BY <4>1, <2>2
      <4> QED BY <4>1, <4>2, <3>2
    <3> QED BY <3>1, <3>2
  <2>4. g = body(g)
    BY <2>3
  <2> QED BY <2>4
<1> HIDE DEF body
<1>3. RetryTime = body(RetryTime)
  BY <1>1, <1>2
<1> QED BY <1>3 DEF body

(* The time of the retries grows with each of them.                        *)
LEMMA Retries ==
    /\ RetryTime \in [Nat -> Nat] /\ RetryTime[0] = 0
    /\ \A n \in Nat : RetryTime[n + 1] = RetryTime[n] + DelayAt[n] + Jitter
    /\ \A n \in Nat : \A i \in 0 .. n : RetryTime[i] <= RetryTime[n]
<1>1. RetryTime[0] = 0
  BY RetryEquation, Zenon
<1>2. ASSUME NEW n \in Nat PROVE RetryTime[n + 1] = RetryTime[n] + DelayAt[n] + Jitter
  <2>1. n + 1 \in Nat /\ n + 1 # 0 /\ (n + 1) - 1 = n
    OBVIOUS
  <2> QED BY <2>1, RetryEquation
<1> DEFINE S == {n \in Nat : RetryTime[n] \in Nat}
<1>3. 0 \in S
  BY <1>1
<1>4. ASSUME NEW n \in Nat, n \in S PROVE n + 1 \in S
  BY <1>2, <1>4, TimeAssumption, Delays
<1>5. Nat \subseteq S
  <2> HIDE DEF S
  <2> QED BY <1>3, <1>4, SetInduction
<1>6. RetryTime \in [Nat -> Nat]
  <2>1. \A n \in Nat : RetryTime[n] \in Nat
    BY <1>5
  <2>2. RetryTime = [n \in Nat |-> RetryTime[n]]
    BY RetryEquation, Zenon
  <2> QED BY <2>1, <2>2
<1> DEFINE M == {n \in Nat : \A i \in 0 .. n : RetryTime[i] <= RetryTime[n]}
<1>7. 0 \in M
  BY <1>1
<1>8. ASSUME NEW n \in Nat, n \in M PROVE n + 1 \in M
  <2>1. RetryTime[n] <= RetryTime[n + 1] /\ RetryTime[n] \in Nat /\ RetryTime[n + 1] \in Nat
    BY <1>2, <1>6, TimeAssumption, Delays
  <2>2. ASSUME NEW i \in 0 .. n + 1 PROVE RetryTime[i] <= RetryTime[n + 1]
    <3>1. CASE i = n + 1
      BY <3>1, <2>1
    <3>2. CASE i \in 0 .. n
      BY <3>2, <2>1, <1>8, <1>6
    <3> QED BY <3>1, <3>2
  <2> QED BY <2>2
<1>9. Nat \subseteq M
  <2> HIDE DEF M
  <2> QED BY <1>7, <1>8, SetInduction
<1> QED BY <1>1, <1>2, <1>6, <1>9

-----------------------------------------------------------------------------
(* The inductive invariant                                                 *)

(* Where maintain's states occur, and that nothing is reported before the  *)
(* first ACK.                                                              *)
ControlOK ==
    /\ state = "acquiring" => pc \in {"client", "try", "sleep", "failed"} /\ reported = Missing
    /\ state = "bound" => pc \in {"loop", "select", "done"}
    /\ pc = "failed" => state = "acquiring"
    /\ pc = "select" /\ state # "bound" => wait = 0

(* backoffRetry: the delay that goes with the number of tries.             *)
BackoffOK ==
    /\ Jitter <= delay
    /\ pc = "try" => tries < ResendCount
    /\ pc \in {"try", "sleep"} /\ tries < ResendCount => delay = DelayAt[tries]

(* acquire has set the link up before it waits for an answer.              *)
LinkOK ==
    state = "acquiring" /\ (pc = "try" \/ (pc = "sleep" /\ tries < ResendCount)) => linkUp

(* What was tried since the last commit.                                   *)
TriedOK ==
    /\ state = "renewing" /\ pc \in {"try", "sleep"} => "renewing" \in tried
    /\ state = "rebinding" => "renewing" \in tried
    /\ state = "rebinding" /\ pc \in {"try", "sleep"} => "rebinding" \in tried

(* The longest time that the tries from the i-th on can take, if one waits *)
(* for packets for p.                                                      *)
Rest(i, p) == (ResendCount - i) * p + RetryTime[ResendCount] - RetryTime[i]

(* The longest time until renew or acquire returns.                        *)
Left == wait + Rest(tries, PacketTime) - (IF pc = "try" THEN PacketTime ELSE 0)

(* What is left of the lease, or how long it is overdue, wherever the      *)
(* goroutine is.                                                           *)
BoundOK == state = "bound" => expire >= 0

RenewingOK ==
    state = "renewing" => IF pc \in {"try", "sleep"} THEN expire - Left >= -(RenewMax + held) ELSE expire >= 0

RebindingOK ==
    state = "rebinding" /\ pc # "done" =>
        IF pc \in {"try", "sleep"} THEN expire - Left >= -(MaxOverdue + held)
        ELSE expire >= -(RenewMax + held)

DoneOK == pc = "done" => expire >= -(MaxOverdue + held)

OverdueOK ==
    "ignored" \notin tried /\ held < MaxHeld => BoundOK /\ RenewingOK /\ RebindingOK /\ DoneOK

LInv == TypeOK /\ ControlOK /\ BackoffOK /\ LinkOK /\ TriedOK /\ WakesForRenewal /\ EndsForAReason
        /\ OverdueOK

-----------------------------------------------------------------------------
(* The time of the tries                                                   *)

(* The delays and the products of the bounds are numbers, and the longest  *)
(* time that is left falls by a packet and a delay with every try.         *)
LEMMA RestFalls ==
    ASSUME NEW p \in Nat
    PROVE  /\ \A i \in 0 .. ResendCount : Rest(i, p) \in Nat
           /\ \A i \in 0 .. ResendCount - 1 :
                Rest(i, p) = Rest(i + 1, p) + p + DelayAt[i] + Jitter
           /\ Rest(ResendCount, p) = 0
           /\ Rest(0, p) = ResendCount * p + RetryTime[ResendCount]
<1> ResendCount \in Nat /\ Jitter \in Nat
  BY TimeAssumption
<1>1. ASSUME NEW i \in 0 .. ResendCount PROVE Rest(i, p) \in Nat
  <2>1. ResendCount - i \in Nat /\ i \in Nat
    OBVIOUS
  <2>2. (ResendCount - i) * p \in Nat
    BY <2>1
  <2>3. RetryTime[ResendCount] \in Nat /\ RetryTime[i] \in Nat
        /\ RetryTime[i] <= RetryTime[ResendCount]
    BY <2>1, Retries
  <2> QED BY <2>2, <2>3 DEF Rest
<1>2. ASSUME NEW i \in 0 .. ResendCount - 1
      PROVE  Rest(i, p) = Rest(i + 1, p) + p + DelayAt[i] + Jitter
  <2>1. i \in Nat /\ i + 1 \in Nat /\ ResendCount - (i + 1) \in Nat
    OBVIOUS
  <2>2. \A a \in Nat : (a + 1) * p = a * p + p
    OBVIOUS
  <2>3. (ResendCount - i) * p = (ResendCount - (i + 1)) * p + p
    <3>1. ResendCount - i = (ResendCount - (i + 1)) + 1
      OBVIOUS
    <3> QED BY <2>1, <2>2, <3>1
  <2>4. /\ RetryTime[ResendCount] \in Nat /\ RetryTime[i] \in Nat /\ DelayAt[i] \in Nat
        /\ RetryTime[i + 1] = RetryTime[i] + DelayAt[i] + Jitter
    BY <2>1, Retries, Delays
  <2>5. (ResendCount - (i + 1)) * p \in Nat
    BY <2>1
  <2> QED BY <2>3, <2>4, <2>5 DEF Rest
<1>3. Rest(ResendCount, p) = 0
  <2>1. (ResendCount - ResendCount) * p = 0
    OBVIOUS
  <2> QED BY <2>1, Retries DEF Rest
<1>4. Rest(0, p) = ResendCount * p + RetryTime[ResendCount]
  <2>1. ResendCount * p \in Nat /\ ResendCount - 0 = ResendCount
    OBVIOUS
  <2> QED BY <2>1, Retries DEF Rest
<1> QED BY <1>1, <1>2, <1>3, <1>4

(* The bounds of DHCPLease in terms of the tries.                          *)
LEMMA Bounds ==
    /\ RenewMax \in Nat /\ RenewMax >= 1 /\ RenewMax = Rest(0, Timeout)
    /\ AcquireMax \in Nat /\ AcquireMax >= 1 /\ AcquireMax = Rest(0, 2 * Timeout)
    /\ MaxOverdue = RenewMax + AcquireMax /\ MaxPast = MaxOverdue + MaxHeld + 1
<1>1. ResendCount \in Nat \ {0} /\ Timeout \in Nat \ {0}
  BY TimeAssumption
<1>2. RetryTime[ResendCount] \in Nat
  BY <1>1, Retries
<1>3. ResendCount * Timeout \in Nat /\ ResendCount * Timeout >= 1
  BY <1>1, Z3
<1>4. ResendCount * 2 * Timeout = 2 * (ResendCount * Timeout)
      /\ ResendCount * (2 * Timeout) = 2 * (ResendCount * Timeout)
  BY <1>1, Z3
<1>5. Rest(0, Timeout) = ResendCount * Timeout + RetryTime[ResendCount]
  BY <1>1, RestFalls
<1>6. Rest(0, 2 * Timeout) = ResendCount * (2 * Timeout) + RetryTime[ResendCount]
  <2>1. 2 * Timeout \in Nat
    BY <1>1
  <2> QED BY <2>1, RestFalls
<1> QED BY <1>2, <1>3, <1>4, <1>5, <1>6 DEF RenewMax, AcquireMax, MaxOverdue, MaxPast

(* However 85 times the lease time wraps around, neither of the times that *)
(* commit derives lies after the end of the lease.                         *)
LEMMA CommitTimes ==
    ASSUME NEW lease \in Nat, NEW t1 \in Option, NEW t2 \in Option
    PROVE  /\ RebindingTime(lease, t2) \in Int /\ RebindingTime(lease, t2) <= lease
           /\ RenewalTime(lease, t1, t2) \in Int /\ RenewalTime(lease, t1, t2) <= lease
<1>1. HalfRange \in Nat \ {0} /\ OptTimes \subseteq Nat
  BY TimeAssumption
<1>2. Wrap(lease * 85) \in Int /\ Wrap(lease * 85) <= lease * 85
  <2>1. \A m \in Nat \ {0} : \A y \in Nat : y % m \in Nat /\ y % m <= y
    BY Z3
  <2>2. 2 * HalfRange \in Nat \ {0} /\ lease * 85 + HalfRange \in Nat
    BY <1>1
  <2>3. (lease * 85 + HalfRange) % (2 * HalfRange) \in Nat
        /\ (lease * 85 + HalfRange) % (2 * HalfRange) <= lease * 85 + HalfRange
    BY <2>1, <2>2
  <2> QED BY <1>1, <2>3 DEF Wrap
<1>3. ASSUME NEW w \in Int, w <= lease * 85 PROVE Quot(w, 100) \in Int /\ Quot(w, 100) <= lease
  BY <1>3 DEF Quot
<1>4. Quot(Wrap(lease * 85), 100) \in Int /\ Quot(Wrap(lease * 85), 100) <= lease
  BY <1>2, <1>3
<1>5. RebindingTime(lease, t2) \in Int /\ RebindingTime(lease, t2) <= lease
  <2> HIDE DEF Quot, Wrap
  <2> QED BY <1>1, <1>4 DEF RebindingTime, Option
<1>6. RenewalTime(lease, t1, t2) \in Int /\ RenewalTime(lease, t1, t2) <= lease
  BY <1>1, <1>5 DEF RenewalTime, Option
<1> QED BY <1>5, <1>6


(* What a step's arithmetic needs of the constants and of the tries.       *)
LEMMA TimeFacts ==
    ASSUME TypeOK
    PROVE  /\ ResendCount \in Nat \ {0} /\ Timeout \in Nat \ {0} /\ Jitter \in Nat
           /\ ResendDelay0 \in Nat /\ Jitter <= ResendDelay0 /\ ResendDelayMax \in Nat
           /\ MaxPast \in Nat /\ MaxOverdue \in Nat /\ MaxHeld \in Nat
           /\ DelayAt[0] = ResendDelay0
           /\ tries \in Nat /\ DelayAt[tries] \in Nat
           /\ DelayAt[tries + 1] = IF DelayAt[tries] < ResendDelayMax THEN 2 * DelayAt[tries]
                                   ELSE DelayAt[tries]
<1>1. tries \in Nat /\ MaxHeld \in Nat
  BY TimeAssumption DEF TypeOK
<1> QED BY <1>1, TimeAssumption, Bounds, Delays

(* The same for the time that the tries may still take.                    *)
LEMMA RestFacts ==
    ASSUME TypeOK, NEW p \in {Timeout, 2 * Timeout}
    PROVE  /\ p \in Nat /\ Rest(tries, p) \in Nat /\ Rest(0, p) \in Nat
           /\ Rest(ResendCount, p) = 0
           /\ tries < ResendCount => /\ Rest(tries + 1, p) \in Nat
                                     /\ Rest(tries, p) = Rest(tries + 1, p) + p + DelayAt[tries] + Jitter
           /\ Rest(0, p) >= p
<1>1. p \in Nat
  BY TimeAssumption
<1>2. tries \in 0 .. ResendCount /\ 0 \in 0 .. ResendCount - 1 /\ 0 \in 0 .. ResendCount
      /\ ResendCount \in Nat /\ Jitter \in Nat
  BY TimeAssumption DEF TypeOK
<1>3. Rest(tries, p) \in Nat /\ Rest(0, p) \in Nat /\ Rest(ResendCount, p) = 0
  BY <1>1, <1>2, RestFalls
<1>4. ASSUME tries < ResendCount
      PROVE  /\ Rest(tries + 1, p) \in Nat
             /\ Rest(tries, p) = Rest(tries + 1, p) + p + DelayAt[tries] + Jitter
  <2>1. tries \in 0 .. ResendCount - 1 /\ tries + 1 \in 0 .. ResendCount
    BY <1>2, <1>4
  <2> QED BY <1>1, <2>1, RestFalls
<1>5. Rest(0, p) >= p
  <2>1. Rest(0, p) = Rest(0 + 1, p) + p + DelayAt[0] + Jitter
    BY <1>1, <1>2, RestFalls
  <2>2. 1 \in 0 .. ResendCount /\ 0 + 1 = 1
    BY <1>2
  <2>3. Rest(1, p) \in Nat
    BY <1>1, <2>2, RestFalls
  <2>4. DelayAt[0] \in Nat
    BY Delays
  <2> QED BY <1>1, <1>2, <1>3, <2>1, <2>2, <2>3, <2>4
<1> QED BY <1>1, <1>3, <1>4, <1>5

-----------------------------------------------------------------------------
(* The steps                                                               *)

(* A round of tries begins: all of it is left.                             *)
LEMMA NewClientPreserves ==
    ASSUME LInv, NewClient
    PROVE  LInv'
<1> USE DEF LInv
<1>1. TypeOK'
  BY TimeFacts DEF TypeOK, ControlOK, BackoffOK, NewClient, PacketTime, times
<1>2. ControlOK'
  BY LInv DEF TypeOK, ControlOK, NewClient, PacketTime, times
<1>3. BackoffOK'
  BY TimeFacts DEF TypeOK, BackoffOK, NewClient, PacketTime, times
<1>4. LinkOK'
  BY LInv DEF TypeOK, LinkOK, BackoffOK, ControlOK, NewClient, PacketTime, times
<1>5. TriedOK'
  BY LInv DEF TypeOK, TriedOK, ControlOK, NewClient, PacketTime, times
<1>6. WakesForRenewal'
  BY TimeFacts DEF TypeOK, ControlOK, WakesForRenewal, NewClient, PacketTime, times
<1>7. EndsForAReason'
  BY LInv DEF TypeOK, ControlOK, LinkOK, TriedOK, EndsForAReason, NewClient, PacketTime, times
<1>8. OverdueOK'
  BY Bounds, TimeFacts, RestFacts DEF TypeOK, ControlOK, BackoffOK, WakesForRenewal, OverdueOK,
       BoundOK, RenewingOK, RebindingOK, DoneOK, Left, PacketTime, NewClient, times
<1> QED BY <1>1, <1>2, <1>3, <1>4, <1>5, <1>6, <1>7, <1>8

(* A round without a try ends after a second, which no round is shorter    *)
(* than.                                                                   *)
LEMMA ClientFaultPreserves ==
    ASSUME LInv, ClientFault
    PROVE  LInv'
<1> USE DEF LInv
<1>1. TypeOK'
  BY TimeFacts DEF TypeOK, ControlOK, BackoffOK, ClientFault, times
<1>2. ControlOK'
  BY LInv DEF TypeOK, ControlOK, ClientFault, times
<1>3. BackoffOK'
  BY TimeFacts DEF TypeOK, BackoffOK, ClientFault, times
<1>4. LinkOK'
  BY TimeAssumption DEF TypeOK, LinkOK, BackoffOK, ControlOK, ClientFault, times
<1>5. TriedOK'
  BY LInv DEF TypeOK, TriedOK, ControlOK, ClientFault, times
<1>6. WakesForRenewal'
  BY TimeFacts DEF TypeOK, ControlOK, WakesForRenewal, ClientFault, times
<1>7. EndsForAReason'
  BY LInv DEF TypeOK, ControlOK, LinkOK, TriedOK, EndsForAReason, ClientFault, times
<1>8. OverdueOK'
  BY Bounds, TimeFacts, RestFacts DEF TypeOK, ControlOK, BackoffOK, WakesForRenewal, OverdueOK,
       BoundOK, RenewingOK, RebindingOK, DoneOK, Left, PacketTime, ClientFault, times
<1> QED BY <1>1, <1>2, <1>3, <1>4, <1>5, <1>6, <1>7, <1>8

(* A foreign packet prolongs what is left by at most what it is counted    *)
(* for.                                                                    *)
LEMMA ForeignPacketPreserves ==
    ASSUME LInv, ForeignPacket
    PROVE  LInv'
<1> USE DEF LInv
<1>1. TypeOK'
  BY TimeFacts DEF TypeOK, ControlOK, BackoffOK, ForeignPacket, PacketTime, Earlier, times
<1>2. ControlOK'
  BY LInv DEF TypeOK, ControlOK, ForeignPacket, PacketTime, Earlier, times
<1>3. BackoffOK'
  BY TimeFacts DEF TypeOK, BackoffOK, ForeignPacket, PacketTime, Earlier, times
<1>4. LinkOK'
  BY LInv DEF TypeOK, LinkOK, BackoffOK, ControlOK, ForeignPacket, PacketTime, Earlier, times
<1>5. TriedOK'
  BY LInv DEF TypeOK, TriedOK, ControlOK, ForeignPacket, PacketTime, Earlier, times
<1>6. WakesForRenewal'
  BY TimeFacts DEF TypeOK, ControlOK, WakesForRenewal, ForeignPacket, PacketTime, Earlier, times
<1>7. EndsForAReason'
  BY LInv DEF TypeOK, ControlOK, LinkOK, TriedOK, EndsForAReason, ForeignPacket, PacketTime, Earlier, times
<1>8. OverdueOK'
  BY Bounds, TimeFacts, RestFacts DEF TypeOK, ControlOK, BackoffOK, WakesForRenewal, OverdueOK,
       BoundOK, RenewingOK, RebindingOK, DoneOK, Left, PacketTime, ForeignPacket, Earlier, times
<1> QED BY <1>1, <1>2, <1>3, <1>4, <1>5, <1>6, <1>7, <1>8

(* The delay after a try is part of what was left before it.               *)
LEMMA TryFailsPreserves ==
    ASSUME LInv, TryFails
    PROVE  LInv'
<1> USE DEF LInv
<1>1. TypeOK'
  BY TimeFacts DEF TypeOK, ControlOK, BackoffOK, TryFails, times
<1>2. ControlOK'
  BY LInv DEF TypeOK, ControlOK, TryFails, times
<1>3. BackoffOK'
  BY TimeFacts DEF TypeOK, BackoffOK, TryFails, times
<1>4. LinkOK'
  BY LInv DEF TypeOK, LinkOK, BackoffOK, ControlOK, TryFails, times
<1>5. TriedOK'
  BY LInv DEF TypeOK, TriedOK, ControlOK, TryFails, times
<1>6. WakesForRenewal'
  BY TimeFacts DEF TypeOK, ControlOK, WakesForRenewal, TryFails, times
<1>7. EndsForAReason'
  BY LInv DEF TypeOK, ControlOK, LinkOK, TriedOK, EndsForAReason, TryFails, times
<1>8. OverdueOK'
  BY Bounds, TimeFacts, RestFacts DEF TypeOK, ControlOK, BackoffOK, WakesForRenewal, OverdueOK,
       BoundOK, RenewingOK, RebindingOK, DoneOK, Left, PacketTime, TryFails, times
<1> QED BY <1>1, <1>2, <1>3, <1>4, <1>5, <1>6, <1>7, <1>8

(* So is the next packet.                                                  *)
LEMMA TryAgainPreserves ==
    ASSUME LInv, TryAgain
    PROVE  LInv'
<1> USE DEF LInv
<1>1. TypeOK'
  BY TimeFacts DEF TypeOK, ControlOK, BackoffOK, TryAgain, PacketTime, times
<1>2. ControlOK'
  BY LInv DEF TypeOK, ControlOK, TryAgain, PacketTime, times
<1>3. BackoffOK'
  BY TimeFacts DEF TypeOK, BackoffOK, TryAgain, PacketTime, times
<1>4. LinkOK'
  BY LInv DEF TypeOK, LinkOK, BackoffOK, ControlOK, TryAgain, PacketTime, times
<1>5. TriedOK'
  BY LInv DEF TypeOK, TriedOK, ControlOK, TryAgain, PacketTime, times
<1>6. WakesForRenewal'
  BY TimeFacts DEF TypeOK, ControlOK, WakesForRenewal, TryAgain, PacketTime, times
<1>7. EndsForAReason'
  BY LInv DEF TypeOK, ControlOK, LinkOK, TriedOK, EndsForAReason, TryAgain, PacketTime, times
<1>8. OverdueOK'
  BY Bounds, TimeFacts, RestFacts DEF TypeOK, ControlOK, BackoffOK, WakesForRenewal, OverdueOK,
       BoundOK, RenewingOK, RebindingOK, DoneOK, Left, PacketTime, TryAgain, times
<1> QED BY <1>1, <1>2, <1>3, <1>4, <1>5, <1>6, <1>7, <1>8

(* commit starts the lease anew.                                           *)
LEMMA AckPreserves ==
    ASSUME LInv, Ack
    PROVE  LInv'
<1> USE DEF LInv
<1>a. PICK lease \in LeaseTimes, t1 \in Option, t2 \in Option, a \in Addrs :
        /\ Commit(lease, t1, t2, a)
        /\ reported' = IF state = "acquiring" THEN a ELSE reported
  BY DEF Ack
<1>b. /\ lease \in Nat
      /\ RebindingTime(lease, t2) \in Int /\ RebindingTime(lease, t2) <= lease
      /\ RenewalTime(lease, t1, t2) \in Int /\ RenewalTime(lease, t1, t2) <= lease
  BY CommitTimes, TimeAssumption
<1>1. TypeOK'
  BY <1>a, <1>b, TimeFacts DEF TypeOK, ControlOK, BackoffOK, Ack, Commit, ToSelect
<1>2. ControlOK'
  BY LInv DEF TypeOK, ControlOK, Ack, Commit, ToSelect
<1>3. BackoffOK'
  BY TimeFacts DEF TypeOK, BackoffOK, Ack, Commit, ToSelect
<1>4. LinkOK'
  BY LInv DEF TypeOK, LinkOK, BackoffOK, ControlOK, Ack, Commit, ToSelect
<1>5. TriedOK'
  BY LInv DEF TypeOK, TriedOK, ControlOK, Ack, Commit, ToSelect
<1>6. WakesForRenewal'
  BY <1>a, <1>b, TimeFacts DEF TypeOK, ControlOK, WakesForRenewal, Ack, Commit, ToSelect
<1>7. EndsForAReason'
  BY LInv DEF TypeOK, ControlOK, LinkOK, TriedOK, EndsForAReason, Ack, Commit, ToSelect
<1>8. OverdueOK'
  BY <1>a, <1>b, Bounds, TimeFacts, RestFacts DEF TypeOK, ControlOK, BackoffOK, WakesForRenewal,
       OverdueOK, BoundOK, RenewingOK, RebindingOK, DoneOK, Left, PacketTime, Ack, Commit,
       ToSelect
<1> QED BY <1>1, <1>2, <1>3, <1>4, <1>5, <1>6, <1>7, <1>8

(* An ACK without a lease time: an error, unless it is ignored.            *)
LEMMA BadAckPreserves ==
    ASSUME LInv, BadAck
    PROVE  LInv'
<1> USE DEF LInv
<1>1. TypeOK'
  BY TimeFacts DEF TypeOK, ControlOK, BackoffOK, BadAck, Error, ToSelect, times
<1>2. ControlOK'
  BY LInv DEF TypeOK, ControlOK, BadAck, Error, ToSelect, times
<1>3. BackoffOK'
  BY TimeFacts DEF TypeOK, BackoffOK, BadAck, Error, ToSelect, times
<1>4. LinkOK'
  BY LInv DEF TypeOK, LinkOK, BackoffOK, ControlOK, BadAck, Error, ToSelect, times
<1>5. TriedOK'
  BY LInv DEF TypeOK, TriedOK, ControlOK, BadAck, Error, ToSelect, times
<1>6. WakesForRenewal'
  BY TimeFacts DEF TypeOK, ControlOK, WakesForRenewal, BadAck, Error, ToSelect, times
<1>7. EndsForAReason'
  BY LInv DEF TypeOK, ControlOK, LinkOK, TriedOK, EndsForAReason, BadAck, Error, ToSelect, times
<1>8. OverdueOK'
  BY Bounds, TimeFacts, RestFacts DEF TypeOK, ControlOK, BackoffOK, WakesForRenewal, OverdueOK,
       BoundOK, RenewingOK, RebindingOK, DoneOK, Left, PacketTime, BadAck, Error, ToSelect,
       times
<1> QED BY <1>1, <1>2, <1>3, <1>4, <1>5, <1>6, <1>7, <1>8

(* The end of the tries: nothing was left of them.                         *)
LEMMA GiveUpPreserves ==
    ASSUME LInv, GiveUp
    PROVE  LInv'
<1> USE DEF LInv
<1>1. TypeOK'
  BY TimeFacts DEF TypeOK, ControlOK, BackoffOK, GiveUp, Error, ToSelect, times
<1>2. ControlOK'
  BY LInv DEF TypeOK, ControlOK, GiveUp, Error, ToSelect, times
<1>3. BackoffOK'
  BY TimeFacts DEF TypeOK, BackoffOK, GiveUp, Error, ToSelect, times
<1>4. LinkOK'
  BY LInv DEF TypeOK, LinkOK, BackoffOK, ControlOK, GiveUp, Error, ToSelect, times
<1>5. TriedOK'
  BY LInv DEF TypeOK, TriedOK, ControlOK, GiveUp, Error, ToSelect, times
<1>6. WakesForRenewal'
  BY TimeFacts DEF TypeOK, ControlOK, WakesForRenewal, GiveUp, Error, ToSelect, times
<1>7. EndsForAReason'
  BY LInv DEF TypeOK, ControlOK, LinkOK, TriedOK, EndsForAReason, GiveUp, Error, ToSelect, times
<1>8. OverdueOK'
  BY Bounds, TimeFacts, RestFacts DEF TypeOK, ControlOK, BackoffOK, WakesForRenewal, OverdueOK,
       BoundOK, RenewingOK, RebindingOK, DoneOK, Left, PacketTime, GiveUp, Error, ToSelect,
       times
<1> QED BY <1>1, <1>2, <1>3, <1>4, <1>5, <1>6, <1>7, <1>8

(* The switch of maintain: renewing begins while the lease is valid.       *)
LEMMA RoundPreserves ==
    ASSUME LInv, Round
    PROVE  LInv'
<1> USE DEF LInv
<1>1. TypeOK'
  BY TimeFacts DEF TypeOK, ControlOK, BackoffOK, Round, ToSelect, times
<1>2. ControlOK'
  BY LInv DEF TypeOK, ControlOK, Round, ToSelect, times
<1>3. BackoffOK'
  BY TimeFacts DEF TypeOK, BackoffOK, Round, ToSelect, times
<1>4. LinkOK'
  BY LInv DEF TypeOK, LinkOK, BackoffOK, ControlOK, Round, ToSelect, times
<1>5. TriedOK'
  BY LInv DEF TypeOK, TriedOK, ControlOK, Round, ToSelect, times
<1>6. WakesForRenewal'
  BY TimeFacts DEF TypeOK, ControlOK, WakesForRenewal, Round, ToSelect, times
<1>7. EndsForAReason'
  BY LInv DEF TypeOK, ControlOK, LinkOK, TriedOK, EndsForAReason, Round, ToSelect, times
<1>8. OverdueOK'
  BY Bounds, TimeFacts, RestFacts DEF TypeOK, ControlOK, BackoffOK, WakesForRenewal, OverdueOK,
       BoundOK, RenewingOK, RebindingOK, DoneOK, Left, PacketTime, Round, ToSelect, times
<1> QED BY <1>1, <1>2, <1>3, <1>4, <1>5, <1>6, <1>7, <1>8

(* The select of maintain.                                                 *)
LEMMA WakePreserves ==
    ASSUME LInv, Wake
    PROVE  LInv'
<1> USE DEF LInv
<1>1. TypeOK' /\ ControlOK' /\ BackoffOK' /\ LinkOK' /\ TriedOK'
  BY LInv DEF TypeOK, ControlOK, BackoffOK, LinkOK, TriedOK, Wake, times
<1>2. WakesForRenewal' /\ EndsForAReason'
  BY TypeOK DEF ControlOK, WakesForRenewal, EndsForAReason, Wake, times
<1>3. OverdueOK'
  BY Bounds DEF TypeOK, ControlOK, OverdueOK, BoundOK, RenewingOK, RebindingOK, DoneOK, Left,
       PacketTime, Wake, times
<1> QED BY <1>1, <1>2, <1>3

(* The end of maintain.                                                    *)
LEMMA SeeStopPreserves ==
    ASSUME LInv, SeeStop
    PROVE  LInv'
<1> USE DEF LInv
<1>1. TypeOK' /\ ControlOK' /\ BackoffOK' /\ LinkOK' /\ TriedOK'
  BY LInv DEF TypeOK, ControlOK, BackoffOK, LinkOK, TriedOK, SeeStop, times
<1>2. WakesForRenewal' /\ EndsForAReason'
  BY TypeOK DEF ControlOK, WakesForRenewal, EndsForAReason, SeeStop, times
<1>3. OverdueOK'
  BY Bounds DEF TypeOK, ControlOK, OverdueOK, BoundOK, RenewingOK, RebindingOK, DoneOK, Left,
       PacketTime, SeeStop, times
<1> QED BY <1>1, <1>2, <1>3

(* Stop changes what only a stopped lease is asked for.                    *)
LEMMA StopPreserves ==
    ASSUME LInv, Stop
    PROVE  LInv'
<1> USE DEF LInv
<1>1. TypeOK' /\ ControlOK' /\ BackoffOK' /\ LinkOK' /\ TriedOK'
  BY LInv DEF TypeOK, ControlOK, BackoffOK, LinkOK, TriedOK, Stop, times
<1>2. WakesForRenewal' /\ EndsForAReason'
  BY TypeOK DEF ControlOK, WakesForRenewal, EndsForAReason, Stop, times
<1>3. OverdueOK'
  BY Bounds DEF TypeOK, ControlOK, OverdueOK, BoundOK, RenewingOK, RebindingOK, DoneOK, Left,
       PacketTime, Stop, times
<1> QED BY <1>1, <1>2, <1>3

(* The server is not in the invariant.                                     *)
LEMMA ServerStopsPreserves ==
    ASSUME LInv, ServerStops
    PROVE  LInv'
<1> USE DEF LInv
<1>1. TypeOK'
  BY LInv DEF TypeOK, ServerStops, times
<1>2. ControlOK' /\ BackoffOK' /\ LinkOK' /\ TriedOK'
  BY LInv DEF ControlOK, BackoffOK, LinkOK, TriedOK, ServerStops, times
<1>3. WakesForRenewal' /\ EndsForAReason'
  BY LInv DEF WakesForRenewal, EndsForAReason, ServerStops, times
<1>4. OverdueOK'
  BY LInv DEF OverdueOK, BoundOK, RenewingOK, RebindingOK, DoneOK, Left, PacketTime,
       ServerStops, times
<1> QED BY <1>1, <1>2, <1>3, <1>4

(* A second less of the lease is a second less of the tries, or of the     *)
(* sleep.                                                                  *)
LEMMA TickPreserves ==
    ASSUME LInv, Tick
    PROVE  LInv'
<1> USE DEF LInv
<1>1. TypeOK'
  BY TimeFacts DEF TypeOK, ControlOK, BackoffOK, Tick, Later
<1>2. ControlOK'
  BY LInv DEF TypeOK, ControlOK, Tick, Later
<1>3. BackoffOK'
  BY TimeFacts DEF TypeOK, BackoffOK, Tick, Later
<1>4. LinkOK'
  BY LInv DEF TypeOK, LinkOK, BackoffOK, ControlOK, Tick, Later
<1>5. TriedOK'
  BY LInv DEF TypeOK, TriedOK, ControlOK, Tick, Later
<1>6. WakesForRenewal'
  BY TimeFacts DEF TypeOK, ControlOK, WakesForRenewal, Tick, Later
<1>7. EndsForAReason'
  BY LInv DEF TypeOK, ControlOK, LinkOK, TriedOK, EndsForAReason, Tick, Later
<1>8. OverdueOK'
  BY Bounds, TimeFacts, RestFacts DEF TypeOK, ControlOK, BackoffOK, WakesForRenewal, OverdueOK,
       BoundOK, RenewingOK, RebindingOK, DoneOK, Left, PacketTime, Tick, Later
<1> QED BY <1>1, <1>2, <1>3, <1>4, <1>5, <1>6, <1>7, <1>8

(* A step that changes nothing.                                            *)
LEMMA StutterPreserves ==
    ASSUME LInv, UNCHANGED vars
    PROVE  LInv'
BY DEF LInv, vars, TypeOK, ControlOK, BackoffOK, LinkOK, TriedOK, WakesForRenewal, EndsForAReason,
       OverdueOK, BoundOK, RenewingOK, RebindingOK, DoneOK, Left, PacketTime

-----------------------------------------------------------------------------
(* The theorems                                                            *)

(* The inductive invariant holds in every state of the lease's goroutine,  *)
(* whatever the server answers and whenever the lease is stopped.          *)
THEOREM Invariance == Spec => []LInv
<1>1. Init => LInv
  <2> SUFFICES ASSUME Init PROVE LInv
    OBVIOUS
  <2>1. TypeOK
    <3>1. tries \in 0 .. ResendCount /\ delay \in Nat /\ wait \in Nat /\ held \in 0 .. MaxHeld
      BY TimeAssumption DEF Init
    <3>2. renewal \in Int /\ rebinding \in Int /\ expire \in Int
      BY DEF Init
    <3>3. stopped \in BOOLEAN /\ released \in BOOLEAN /\ server \in BOOLEAN /\ linkUp \in BOOLEAN
      BY DEF Init
    <3> QED BY <3>1, <3>2, <3>3, Zenon DEF Init, TypeOK
  <2>2. ControlOK /\ BackoffOK /\ LinkOK /\ TriedOK /\ WakesForRenewal /\ EndsForAReason
    BY TimeAssumption
    DEF Init, ControlOK, BackoffOK, LinkOK, TriedOK, WakesForRenewal, EndsForAReason
  <2>3. OverdueOK
    BY DEF Init, OverdueOK, BoundOK, RenewingOK, RebindingOK, DoneOK
  <2> QED BY <2>1, <2>2, <2>3 DEF LInv
<1>2. LInv /\ [Next]_vars => LInv'
  BY NewClientPreserves, ClientFaultPreserves, ForeignPacketPreserves, TryFailsPreserves,
     TryAgainPreserves, AckPreserves, BadAckPreserves, GiveUpPreserves, RoundPreserves, WakePreserves, SeeStopPreserves,
     TickPreserves, StopPreserves, ServerStopsPreserves, StutterPreserves DEF Next, Run
<1> QED BY <1>1, <1>2, PTL DEF Spec

(* The variables of the goroutine keep their types: in particular          *)
(* backoffRetry counts no further than ResendCount and no sleep, of        *)
(* backoffRetry or of maintain, has a negative duration.                   *)
THEOREM TypeCorrect == Spec => []TypeOK
<1>1. LInv => TypeOK
  BY DEF LInv
<1> QED BY <1>1, Invariance, PTL

(* maintain takes the interface of an expired lease down within one round  *)
(* of renewing and one of rebinding and the time for which packets of      *)
(* others prolonged the tries, for any ResendCount, delays, lease times    *)
(* and any MaxHeld, unless renew has ignored the error of commit.          *)
THEOREM OverdueIsBounded == Spec => []NotOverdue
<1>1. LInv => NotOverdue
  BY Bounds, TimeFacts, RestFacts
  DEF LInv, TypeOK, ControlOK, BackoffOK, OverdueOK, BoundOK, RenewingOK, RebindingOK, DoneOK, Left,
      PacketTime, NotOverdue
<1> QED BY <1>1, Invariance, PTL

(* maintain returns only for a lease that was stopped, or that has expired *)
(* after renewing and rebinding were both tried, and it leaves the         *)
(* interface up until then.                                                *)
THEOREM MaintenanceEnds == Spec => []EndsForAReason
<1>1. LInv => EndsForAReason
  BY DEF LInv
<1> QED BY <1>1, Invariance, PTL

(* A bound lease is not slept on past its renewal time, and even where the *)
(* rebinding time of commit overflows renewing and rebinding are due no    *)
(* later than the lease expires (not: begin by then).                      *)
THEOREM RenewalIsInTime == Spec => []WakesForRenewal
<1>1. LInv => WakesForRenewal
  BY DEF LInv
<1> QED BY <1>1, Invariance, PTL

-----------------------------------------------------------------------------
(* The life cycle that the daemon relies on                                *)

(* How far the goroutine has come, for the one who holds the lease.        *)
Phase ==
    IF pc = "failed" THEN "free" ELSE IF pc = "done" THEN "over"
    ELSE IF state = "acquiring" THEN "acquiring" ELSE "maintained"

Cycle == INSTANCE LeaseCycle WITH phase <- Phase, closed <- stopped

(* One step of the goroutine or of Stop is at most one of the life cycle.  *)
LEMMA CycleStep == LInv /\ [Next]_vars => [Cycle!Next]_<<Phase, stopped>>
<1> SUFFICES ASSUME LInv, [Next]_vars PROVE [Cycle!Next]_<<Phase, stopped>>
  OBVIOUS
<1> USE DEF LInv, TypeOK, ControlOK, Phase, Cycle!Next, Cycle!Acquired, Cycle!Failed, Cycle!Stop, Cycle!End
<1>1. CASE NewClient \/ ClientFault \/ ForeignPacket \/ TryFails \/ TryAgain
  BY <1>1 DEF NewClient, ClientFault, ForeignPacket, TryFails, TryAgain
<1>2. CASE Ack
  BY <1>2 DEF Ack, ToSelect
<1>3. CASE BadAck
  BY <1>3 DEF BadAck, Error, ToSelect
<1>4. CASE GiveUp
  BY <1>4 DEF GiveUp, Error, ToSelect
<1>5. CASE Round \/ Wake
  BY <1>5 DEF Round, Wake, ToSelect
<1>6. CASE SeeStop
  BY <1>6 DEF SeeStop
<1>7. CASE Tick \/ ServerStops
  BY <1>7 DEF Tick, ServerStops
<1>8. CASE Stop
  BY <1>8 DEF Stop
<1>9. CASE UNCHANGED vars
  BY <1>9 DEF vars
<1> QED BY <1>1, <1>2, <1>3, <1>4, <1>5, <1>6, <1>7, <1>8, <1>9 DEF Next, Run

(* AcquireLease, maintain and Stop keep to the life cycle that the handlers *)
(* of the daemon rely on: maintenance begins with an ACK, ends once, and   *)
(* the channel is closed once, after the lease was acquired.               *)
THEOREM LeaseImplementsCycle == Spec => Cycle!Spec
<1>1. Init => Cycle!Init
  BY DEF Init, Cycle!Init, Phase
<1> QED BY <1>1, CycleStep, Invariance, PTL DEF Spec, Cycle!Spec
=============================================================================
