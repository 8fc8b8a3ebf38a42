------------------------- MODULE MCInterfacePlugin -------------------------
(* Small instances of InterfacePlugin.                                     *)
EXTENDS InterfacePlugin, TLC

CONSTANTS c1, c2, c3, g1, g2, a1, a2

(* A network of two addresses a1 and a2 behind a bridge with address g1.   *)
Net == [plugin |-> "bridge", isGW |-> TRUE, force |-> FALSE, ipMasq |-> TRUE, gw |-> g1,
        pool |-> {a1, a2}]

(* Three containers on a bridge, two of which force their gateway's        *)
(* address upon it, while the third has another gateway.                   *)
SharedBridge ==
    [c \in Containers |->
        IF c = c3 THEN [Net EXCEPT !.ipMasq = FALSE, !.gw = g2]
        ELSE [Net EXCEPT !.ipMasq = FALSE, !.force = TRUE]]

(* The other plugins, on one IPAM network that does not suffice for all.   *)
OtherPlugins ==
    [c \in Containers |->
        IF c = c1 THEN [Net EXCEPT !.plugin = "ptp", !.isGW = FALSE]
        ELSE IF c = c2 THEN [Net EXCEPT !.plugin = "macvlan", !.isGW = FALSE, !.ipMasq = FALSE]
        ELSE [Net EXCEPT !.plugin = "ipvlan", !.isGW = FALSE, !.ipMasq = FALSE]]

(* The addresses of the pool are interchangeable.                          *)
AddressSymmetry == Permutations({a1, a2})
BridgeSymmetry == AddressSymmetry \cup Permutations({c1, c2})
=============================================================================
