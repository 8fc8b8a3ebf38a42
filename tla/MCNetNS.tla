------------------------------ MODULE MCNetNS ------------------------------
(* Small instances of NetNS.                                               *)
EXTENDS NetNS

CONSTANTS main, h1, home, a, b
=============================================================================
