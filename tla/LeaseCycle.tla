---------------------------- MODULE LeaseCycle -----------------------------
(***************************************************************************)
(* The life cycle of a lease, as far as the handlers of the DHCP daemon    *)
(* and the goroutine of the lease have to agree on it: what DHCPLease      *)
(* implements and DHCPDaemon relies on.                                    *)
(***************************************************************************)
VARIABLES phase,    \* of the object: unused, being acquired, maintained, over
          closed    \* its stop channel is closed

Init == phase \in {"free", "acquiring"} /\ closed = FALSE

(* Allocate makes an object whose channel is open ...                      *)
Start == phase \in {"free", "over"} /\ phase' = "acquiring" /\ closed' = FALSE

(* ... and gets to see it once it has been acquired, if it is.             *)
Acquired == phase = "acquiring" /\ phase' = "maintained" /\ UNCHANGED closed
Failed == phase = "acquiring" /\ phase' = "free" /\ UNCHANGED closed

(* A lease is stopped once, and only after AcquireLease has returned it.   *)
Stop == phase \in {"maintained", "over"} /\ ~ closed /\ closed' = TRUE /\ UNCHANGED phase

(* maintain returns, for a stopped lease or for one that has expired, and  *)
(* nothing starts it again.                                                *)
End == phase = "maintained" /\ phase' = "over" /\ UNCHANGED closed

(* The object, or the whole daemon, is gone.                               *)
Discard == phase' = "free" /\ closed' = FALSE

Next == Start \/ Acquired \/ Failed \/ Stop \/ End \/ Discard

Spec == Init /\ [][Next]_<<phase, closed>>
=============================================================================
