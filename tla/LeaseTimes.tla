----------------------------- MODULE LeaseTimes -----------------------------
(***************************************************************************)
(* The times that DHCPLease.commit derives from the options of a DHCPACK,  *)
(* in the arithmetic of time.Duration: signed integers that wrap around at *)
(* HalfRange (2^63 nanoseconds in the code).                               *)
(***************************************************************************)
EXTENDS Integers

CONSTANTS Missing,     \* an option that the ACK does not have, or not in 4 bytes
          HalfRange    \* one more than the largest time.Duration

Wrap(n) == ((n + HalfRange) % (2 * HalfRange)) - HalfRange

(* Go divides towards zero.                                                *)
Quot(n, d) == IF n < 0 THEN -((-n) \div d) ELSE n \div d

RebindingTime(lease, t2) ==
    IF t2 = Missing \/ t2 > lease THEN Quot(Wrap(lease * 85), 100) ELSE t2

RenewalTime(lease, t1, t2) ==
    IF t1 = Missing \/ t1 > RebindingTime(lease, t2) THEN lease \div 2 ELSE t1
=============================================================================
