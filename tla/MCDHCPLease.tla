---------------------------- MODULE MCDHCPLease ----------------------------
(* Instances of DHCPLease, with delays and times that are scaled down.     *)
EXTENDS DHCPLease

CONSTANTS a1, a2
============================================================================
