--------------------------- MODULE Concatenation ---------------------------
(* Sequences that are put together from parts, as they grow.               *)
EXTENDS Integers, Sequences

(* The concatenation of the first n parts, for every n.                    *)
Built(parts) ==
    LET upTo[n \in 0 .. Len(parts)] == IF n = 0 THEN <<>> ELSE upTo[n - 1] \o parts[n] IN upTo

Flat(parts) == Built(parts)[Len(parts)]
=============================================================================
