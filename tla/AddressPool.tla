---------------------------- MODULE AddressPool ----------------------------
(***************************************************************************)
(* What an IPAM plugin promises to the container runtime, whatever it      *)
(* keeps on disk: an address that is given to a container comes from the   *)
(* pool and is held by no one, and stays with that container until the     *)
(* runtime gives it back.                                                  *)
(***************************************************************************)
CONSTANTS Owners,   \* container ids
          Addresses \* the addresses that may be given out

VARIABLE held       \* the <<owner, address>> pairs in force

Init == held = {}

Acquire(o, a) ==
    /\ \A h \in held : h[2] # a
    /\ held' = held \cup {<<o, a>>}

ReleaseAll(o) == held' = {h \in held : h[1] # o}

Next == \E o \in Owners : ReleaseAll(o) \/ \E a \in Addresses : Acquire(o, a)

Spec == Init /\ [][Next]_held
=============================================================================
