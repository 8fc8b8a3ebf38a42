---------------------------- MODULE HostLocalInv ----------------------------
(***************************************************************************)
(* The inductive invariant behind the theorems of HostLocalProofs.         *)
(***************************************************************************)
EXTENDS HostLocal

AddPCs == {"get", "scan", "reserve", "write", "close", "undo", "truncate", "last"}
DelPCs == {"walk", "visit", "remove"}

(* An ADD that will succeed, or has: its address is not yet handed out.    *)
Successful(p) == op[p] = "ADD" /\ result[p] = "ok"

(* The file cur[p] is the reservation that the ADD p has created.          *)
Holds(p) == pc[p] \in {"write", "close", "undo", "truncate", "last"} \/ Successful(p)

(* What a live process knows at each point.                                *)
CommandOK ==
    \A p \in Procs :
        /\ Live(p) => cid[p] \in Ids /\ op[p] \in {"ADD", "DEL"} /\ conf[p] \in Confs
        /\ ~ Live(p) => op[p] = Nil
        /\ pc[p] \in AddPCs => op[p] = "ADD"
        /\ pc[p] \in DelPCs => op[p] = "DEL"
        /\ pc[p] = "remove" => cur[p] \in Names
        /\ result[p] = "ok" => pc[p] \in {"unlock", "return"}
        /\ InCritical(p) \/ pc[p] = "lock" \/ Successful(p) => Accepts(conf[p])

(* Get's loop.                                                             *)
Searching(p) == pc[p] = "scan" \/ (pc[p] = "reserve" /\ conf[p].requested = Nil)

(* The address a search or a request is at is one of the range, and one    *)
(* that is being reserved is not the gateway.                              *)
AddressOK ==
    \A p \in Procs :
        /\ pc[p] \in {"scan", "reserve"} \/ Holds(p) =>
            /\ cur[p] \in Addr
            /\ Start(conf[p]) <= cur[p] /\ cur[p] <= End(conf[p])
            /\ conf[p].requested # Nil => cur[p] = conf[p].requested
        /\ pc[p] = "scan" => conf[p].requested = Nil
        /\ Searching(p) =>
            /\ endIP[p] \in Addr /\ Start(conf[p]) <= endIP[p] /\ endIP[p] <= End(conf[p])
            /\ pc[p] = "reserve" => cur[p] # endIP[p]
        /\ pc[p] = "reserve" \/ Holds(p) => cur[p] # Gateway(conf[p])

(* Unless flock fails, a process inside Get or Release has the lock.       *)
Locked == LockReliable => \A p \in Procs : InCritical(p) => lock = p

OneCommandPerId ==
    \A p, q \in Procs : Live(p) /\ Live(q) /\ cid[p] = cid[q] => p = q

(* The reservation a process has created is on disk, is its alone, and is  *)
(* nobody's address yet.                                                   *)
HoldsOnDisk ==
    \A p \in Procs : Holds(p) =>
        \/ pc[p] \in {"write", "undo"} /\ dir[cur[p]] = Empty
        \/ pc[p] # "write" /\ dir[cur[p]] = cid[p]

HoldsAlone ==
    \A p, q \in Procs : Holds(p) /\ Holds(q) /\ cur[p] = cur[q] => p = q

HoldsFresh ==
    \A p \in Procs : Holds(p) => \A g \in granted : g[2] # cur[p]

(* A container that is being DELeted holds no address, and the file about  *)
(* to be removed is one of its own.                                        *)
DelDrops ==
    \A p \in Procs : op[p] = "DEL" => \A g \in granted : g[1] # cid[p]

RemovesOwn ==
    \A p \in Procs : pc[p] = "remove" /\ cur[p] \in Addr => dir[cur[p]] = cid[p]

(* The addresses that a search which is to stop at e has passed when it is *)
(* at x: it started behind e, and wraps from the end of the range to its   *)
(* start.                                                                  *)
Passed(c, e, x, a) ==
    /\ Start(c) <= a /\ a <= End(c)
    /\ IF x > e THEN e < a /\ a < x ELSE e < a \/ a < x

PassedAreTaken ==
    LockReliable => \A p \in Procs : Searching(p) =>
        \A a \in Addr :
            Passed(conf[p], endIP[p], cur[p], a) /\ a # Gateway(conf[p]) => dir[a] # NoFile

(* What the walk has passed does not hold the id.                          *)
WalkedAreFreed ==
    faults = 0 => \A p \in Procs : pc[p] \in {"visit", "remove"} =>
        \A f \in Names : dir[f] = cid[p] => f \in todo[p] \/ (pc[p] = "remove" /\ f = cur[p])

(* The inductive invariant of the host-local plugin: reservations on disk, *)
(* in progress and handed out never conflict.                              *)
IInv ==
    /\ TypeOK /\ CommandOK /\ AddressOK /\ Locked /\ OneCommandPerId
    /\ HoldsOnDisk /\ HoldsAlone /\ HoldsFresh /\ DelDrops /\ RemovesOwn
    /\ GrantedIsOnDisk
    /\ PassedAreTaken /\ WalkedAreFreed /\ ExhaustedMeansFull /\ ReleaseFreesAll

(* What may happen to a file of an address in a step: the ADD that has     *)
(* created it writes its id into it, or removes it after an error, or a    *)
(* DEL of the very container it names removes it, although the file was    *)
(* read in an earlier step than the one that removes it.                   *)
OwnersChange ==
    \A a \in Addr : dir[a] # NoFile /\ dir'[a] # dir[a] =>
        \E p \in Procs : cur[p] = a /\
            \/ Holds(p) /\ dir[a] = Empty /\ dir'[a] = cid[p]
            \/ Holds(p) /\ dir[a] \in {Empty, cid[p]} /\ dir'[a] = NoFile
            \/ op[p] = "DEL" /\ dir[a] = cid[p] /\ dir'[a] = NoFile

(* A file that is there for a reason: an ADD has created it and has not    *)
(* returned yet, or a DEL of its container has yet to come to it.          *)
Accounted(a) ==
    \/ <<dir[a], a>> \in granted
    \/ \E p \in Procs :
        \/ Holds(p) /\ pc[p] # "undo" /\ cur[p] = a
        \/ Live(p) /\ op[p] = "DEL" /\ pc[p] # "return" /\ cid[p] = dir[a]

(* As long as nothing is killed and nothing fails, every file is.          *)
AllAccounted == crashes = 0 /\ faults = 0 => \A a \in Addr : dir[a] # NoFile => Accounted(a)
=============================================================================
