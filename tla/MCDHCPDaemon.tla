--------------------------- MODULE MCDHCPDaemon ---------------------------
(* Small instances of DHCPDaemon.                                          *)
EXTENDS DHCPDaemon, TLC

CONSTANTS h1, h2, a1, a2, c1, c2, k1, k2

(* Two containers on a network, whose keys differ, or whose ids and        *)
(* networks' names are the same string when they are put together.         *)
Pair == {a1, a2}
PairContainers == [a \in Pair |-> IF a = a2 THEN c2 ELSE c1]
PairKeys == {[a \in Pair |-> IF a = a2 THEN k ELSE k1] : k \in {k1, k2}}

(* The same with keys that differ.                                         *)
DistinctKeys == {f \in PairKeys : f[a1] # f[a2]}

(* The slots for RPCs are interchangeable (used where no liveness is       *)
(* checked).                                                               *)
Symmetry == Permutations(Calls)
============================================================================
