---------------------------- MODULE MCHostLocal ----------------------------
(* Small instances of HostLocal.                                           *)
EXTENDS HostLocalInv, TLC

CONSTANTS c1, c2, c3, p1, p2, p3

(* Configurations of one network, of eight addresses 0..7 (a /29).        *)
Net == [ip |-> 0, size |-> 8, rangeStart |-> Nil, rangeEnd |-> Nil, gateway |-> Nil,
        requested |-> Nil]

(* A range of three addresses with the gateway inside it ...               *)
Inside == [Net EXCEPT !.rangeStart = 2, !.rangeEnd = 4, !.gateway = 3]
(* ... one that ends at the gateway, so that it has one address to hand    *)
(* out, and the last reserved one may lie outside of it; requests for that *)
(* address and for the gateway; a range whose end lies before its start ...*)
Scarce == [Net EXCEPT !.rangeStart = 2, !.rangeEnd = 3, !.gateway = 3]
Wanted == [Scarce EXCEPT !.requested = 2]
Refused == [Scarce EXCEPT !.requested = 3]
Wrong == [Net EXCEPT !.rangeStart = 4, !.rangeEnd = 2]
(* ... and a /30 with every default: addresses 1 (the gateway) and 2.      *)
Smallest == [Net EXCEPT !.size = 4]

ConfsShared == {Inside, Scarce}
ConfsRequest == {Scarce, Refused, Wanted, Wrong}
ConfsSmallest == {Smallest}

(* Processes are interchangeable, and so are the ids that are model values *)
(* (used by the runs that check invariants only).                          *)
Symmetry == Permutations(Procs) \cup Permutations(Ids)
============================================================================
