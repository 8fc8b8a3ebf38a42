----------------------------- MODULE RangeCheck -----------------------------
(***************************************************************************)
(* Which ranges NewIPAllocator lets through, over every configuration of   *)
(* the small address space of IPBytes.                                     *)
(***************************************************************************)
EXTENDS IPBytes

(* The state, read as the configuration that is parsed.                    *)
conf == [ip |-> ToInt(net), size |-> size, rangeStart |-> Value(start), rangeEnd |-> Value(end),
         gateway |-> Nil, requested |-> Nil]

(* A configuration whose subnet is written without host bits and whose     *)
(* rangeStart is not the broadcast address gets, if it is accepted, a      *)
(* range inside the subnet that is not empty and that has the network and  *)
(* the broadcast address only where rangeStart and rangeEnd name them: the *)
(* checks of NewIPAllocator suffice for what HostLocal assumes.            *)
AcceptedRangeIsSound ==
    Accepts(conf) /\ net = Masked(net) /\ conf.rangeStart # Broadcast(conf) => RangeIsSound(conf)
=============================================================================
