------------------------------ MODULE IPRange ------------------------------
(***************************************************************************)
(* The address arithmetic of the host-local allocator: which addresses a   *)
(* configuration lets it hand out, and the order in which it tries them.   *)
(*                                                                         *)
(* An IPv4 address is its integer value.  A subnet is the record           *)
(* [ip |-> address, size |-> number of addresses the mask spans]; like the *)
(* Go value it is parsed into, its ip keeps the host bits of the CIDR text *)
(* ("203.0.113.1/24" has ip 203.0.113.1).  The module IPBytes relates this *)
(* integer view to the byte slices that the code really handles.           *)
(***************************************************************************)
EXTENDS Naturals

CONSTANT Nil    \* a Go nil net.IP: an optional field that is not given

(* An IPAMConfig: subnet, the three optional fields, and the address that  *)
(* CNI_ARGS may request (IPAMArgs.IP).                                     *)
IPAMConfig(Addrs) ==
    [ip : Addrs, size : Nat \ {0}, rangeStart : Addrs \cup {Nil}, rangeEnd : Addrs \cup {Nil},
     gateway : Addrs \cup {Nil}, requested : Addrs \cup {Nil}]

NextIP(a) == a + 1

(* net.IPNet.Contains: equal once the host bits are masked off.            *)
Contains(c, a) == a \div c.size = c.ip \div c.size

(* networkRange's second result: all host bits set, less the broadcast     *)
(* address.                                                                *)
NetworkEnd(c) == c.ip - (c.ip % c.size) + c.size - 2

(* validateRangeIP succeeds: a is in the subnet and between the bounds     *)
(* that are given.                                                         *)
InBounds(c, a, start, end) ==
    /\ Contains(c, a)
    /\ start # Nil => start <= a
    /\ end # Nil => a <= end

(* The range that NewIPAllocator computes.                                 *)
Start(c) == IF c.rangeStart # Nil THEN c.rangeStart ELSE NextIP(c.ip)
End(c)   == IF c.rangeEnd # Nil THEN c.rangeEnd ELSE NetworkEnd(c)

(* Mutant: the end is not compared with the start.                         *)
AcceptsAnyEnd(c) ==
    /\ c.size >= 4
    /\ c.rangeStart # Nil => InBounds(c, c.rangeStart, Nil, Nil)
    /\ c.rangeEnd # Nil => InBounds(c, c.rangeEnd, Nil, Nil)

(* NewIPAllocator returns no error: the mask leaves at least two host bits *)
(* and the bounds that are given lie in the subnet, the end not before the *)
(* start.  The start is not compared with an end that is not given.        *)
Accepts(c) ==
    /\ c.size >= 4
    /\ c.rangeStart # Nil => InBounds(c, c.rangeStart, Nil, Nil)
    /\ c.rangeEnd # Nil => InBounds(c, c.rangeEnd, Start(c), Nil)

(* The gateway of a result, which Get never hands out.                     *)
Gateway(c) == IF c.gateway # Nil THEN c.gateway ELSE NextIP(c.ip)

(* IPAllocator.nextIP: the successor, wrapping from the end to the start.  *)
NextInRange(c, a) == IF a = End(c) THEN Start(c) ELSE NextIP(a)

(* getSearchRange, given what LastReservedIP returned (Nil for an error or *)
(* an unparsable file): where the search starts and where it gives up.     *)
StartFromLast(c, last) == last # Nil /\ InBounds(c, last, Start(c), End(c))
(* Mutant: the search starts one address too far.                          *)
SearchStartTooFar(c, last) ==
    IF StartFromLast(c, last) THEN NextInRange(c, NextInRange(c, last)) ELSE Start(c)

SearchStart(c, last) == IF StartFromLast(c, last) THEN NextInRange(c, last) ELSE Start(c)
SearchEnd(c, last)   == IF StartFromLast(c, last) THEN last ELSE End(c)

(* The addresses of the range that Get may hand out.                       *)
Pool(c) == (Start(c) .. End(c)) \ {Gateway(c)}

Broadcast(c) == NetworkEnd(c) + 1

(* What the allocator relies on in its range: it lies in the subnet, is    *)
(* not empty, and has the network and the broadcast address only where     *)
(* rangeStart and rangeEnd name them.                                      *)
RangeIsSound(c) ==
    /\ Start(c) <= End(c)
    /\ Contains(c, Start(c)) /\ Contains(c, End(c))
    /\ c.ip \in Start(c) .. End(c) => c.rangeStart = c.ip
    /\ Broadcast(c) \in Start(c) .. End(c) => c.rangeEnd = Broadcast(c)
============================================================================
