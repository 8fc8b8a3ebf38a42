----------------------------- MODULE DHCPDaemon -----------------------------
(***************************************************************************)
(* The DHCP daemon: a process that serves the RPCs DHCP.Allocate and       *)
(* DHCP.Release, each in a goroutine of its own, and keeps the leases it   *)
(* maintains in a map that a mutex protects.  The dhcp plugin's cmdAdd and *)
(* cmdDel are the clients.  A lease is abstracted to the life cycle that   *)
(* the module DHCPLease models in detail: acquiring, maintained, over.     *)
(*                                                                         *)
(* An attachment is a container's interface on a network.  The map's key   *)
(* is the concatenation of container id and network name: a key may stand  *)
(* for several attachments.                                                *)
(***************************************************************************)
EXTENDS Naturals, FiniteSets

CONSTANTS
    Calls,          \* slots for RPCs in flight
    Attachments,    \* the <container, network, interface> triples in play
    ContainerOf,    \* the container of each attachment
    Keys,           \* the keys of the map of leases
    KeyMaps,        \* the keys that attachments may have: functions to Keys
    MaxLeases,      \* bound on the DHCPLease objects that exist at a time
    MaxDeaths,      \* bound on the plugin processes that are killed
    None            \* no lease, no attachment

VARIABLES
    keyOf,     \* the key of each attachment, which never changes
    up,        \* the daemon runs
    leases,    \* DHCP.leases: map from key to lease
    owner,     \* the attachment a lease was acquired for
    phase,     \* the life cycle of a lease
    closed,    \* its stop channel is closed
    pc,        \* where each RPC handler is
    att,       \* the attachment it is called for
    lse,       \* its local variable l
    client,    \* the plugin process waits for the reply
    status,    \* what the runtime knows of each attachment
    deaths,    \* how many plugin processes have been killed
    disturbed  \* history: a plugin process was killed, a DEL repeated, or a lease lost
               \* its place in the map to that of another attachment

vars == <<keyOf, deaths, up, leases, owner, phase, closed, pc, att, lse, client, status, disturbed>>

Leases == 1 .. MaxLeases

ASSUME DaemonAssumption ==
    /\ MaxLeases \in Nat \ {0}
    /\ MaxDeaths \in Nat
    /\ KeyMaps \subseteq [Attachments -> Keys]
    /\ None \notin Leases \cup Attachments

Init ==
    /\ keyOf \in KeyMaps
    /\ deaths = 0
    /\ up = TRUE
    /\ leases = [k \in Keys |-> None]
    /\ owner = [n \in Leases |-> None]
    /\ phase = [n \in Leases |-> "free"]
    /\ closed = [n \in Leases |-> FALSE]
    /\ pc = [h \in Calls |-> "idle"]
    /\ att = [h \in Calls |-> None]
    /\ lse = [h \in Calls |-> None]
    /\ client = [h \in Calls |-> FALSE]
    /\ status = [a \in Attachments |-> "none"]
    /\ disturbed = FALSE

Goto(h, from, to) == pc[h] = from /\ pc' = [pc EXCEPT ![h] = to]

AddPCs == {"acquire", "ipnet", "set", "undo", "added", "addFailed"}

(* The runtime runs one command per container at a time.                   *)
ContainerIdle(a) ==
    \A h \in Calls : client[h] => ContainerOf[att[h]] # ContainerOf[a]

(* An object that neither the map nor a goroutine refers to any more.      *)
Unused(n) ==
    /\ phase[n] \in {"free", "over"}
    /\ \A k \in Keys : leases[k] # n
    /\ \A h \in Calls : lse[h] # n

(* The objects of this set are garbage, and as good as new.                *)
Collect(S) ==
    /\ phase' = [n \in Leases |-> IF n \in S THEN "free" ELSE phase[n]]
    /\ owner' = [n \in Leases |-> IF n \in S THEN None ELSE owner[n]]
    /\ closed' = [n \in Leases |-> closed[n] /\ n \notin S]

Call(h, a, to) ==
    /\ up
    /\ ContainerIdle(a)
    /\ Goto(h, "idle", to)
    /\ att' = [att EXCEPT ![h] = a]
    /\ client' = [client EXCEPT ![h] = TRUE]

-----------------------------------------------------------------------------
(* Allocate                                                                *)

(* cmdAdd calls Allocate, which starts the goroutine of a new lease.       *)
CallAllocate(h, a) ==
    /\ status[a] = "none"
    /\ Call(h, a, "acquire")
    /\ \E n \in Leases :
        /\ Unused(n) /\ \A m \in Leases : Unused(m) => n <= m
        /\ owner' = [owner EXCEPT ![n] = a]
        /\ phase' = [phase EXCEPT ![n] = "acquiring"]
        /\ closed' = [closed EXCEPT ![n] = FALSE]
        /\ lse' = [lse EXCEPT ![h] = n]
    /\ status' = [status EXCEPT ![a] = "adding"]
    /\ UNCHANGED <<keyOf, deaths, up, leases, disturbed>>

(* AcquireLease returns the lease, which is maintained from now on ...     *)
Acquired(h) ==
    /\ Goto(h, "acquire", "ipnet")
    /\ phase' = [phase EXCEPT ![lse[h]] = "maintained"]
    /\ UNCHANGED <<keyOf, deaths, up, leases, owner, closed, att, lse, client, status, disturbed>>

(* ... or an error, with a lease that nobody will refer to.                *)
NotAcquired(h) ==
    /\ Goto(h, "acquire", "addFailed")
    /\ Collect({lse[h]})
    /\ UNCHANGED <<keyOf, deaths, up, leases, att, lse, client, status, disturbed>>

IPNet(h) ==
    /\ Goto(h, "ipnet", "set")
    /\ UNCHANGED <<keyOf, deaths, up, leases, owner, phase, closed, att, lse, client, status, disturbed>>

(* The ACK has no subnet mask: Stop closes the channel of the new lease.   *)
NoSubnetMask(h) ==
    /\ Goto(h, "ipnet", "undo")
    /\ closed' = [closed EXCEPT ![lse[h]] = TRUE]
    /\ UNCHANGED <<keyOf, deaths, up, leases, owner, phase, att, lse, client, status, disturbed>>

Undone(h) ==
    /\ Goto(h, "undo", "addFailed")
    /\ phase[lse[h]] = "over" /\ Collect({lse[h]})
    /\ UNCHANGED <<keyOf, deaths, up, leases, att, lse, client, status, disturbed>>

(* Mutant: an entry of the map that exists is not replaced.                *)
SetLeaseOnce(h) ==
    /\ Goto(h, "set", "added")
    /\ leases' = [leases EXCEPT ![keyOf[att[h]]] = IF @ = None THEN lse[h] ELSE @]
    /\ UNCHANGED <<keyOf, deaths, up, owner, phase, closed, att, lse, client, status, disturbed>>

(* The key has the lease of another attachment, which nobody has stopped.  *)
Collides(a) == LET n == leases[keyOf[a]] IN n # None /\ owner[n] # a /\ ~ closed[n]

SetLease(h) ==
    /\ Goto(h, "set", "added")
    /\ leases' = [leases EXCEPT ![keyOf[att[h]]] = lse[h]]
    /\ Collect({n \in Leases : n = leases[keyOf[att[h]]] /\ phase[n] = "over" /\ \A g \in Calls : lse[g] # n})
    /\ disturbed' = (disturbed \/ Collides(att[h]))
    /\ UNCHANGED <<keyOf, deaths, up, att, lse, client, status>>

-----------------------------------------------------------------------------
(* Release                                                                 *)

(* cmdDel calls Release, for an attachment that was added, that may have   *)
(* been added, or again for one that was deleted.                          *)
CallRelease(h, a) ==
    /\ status[a] \in {"attached", "unknown", "none"}
    /\ Call(h, a, "get")
    /\ status' = [status EXCEPT ![a] = "deleting"]
    /\ disturbed' = (disturbed \/ status[a] = "none")
    /\ UNCHANGED <<keyOf, deaths, up, leases, owner, phase, closed, lse>>

(* Mutant: the lease of another key is returned.                           *)
GetAnyLease(h) ==
    /\ Goto(h, "get", "close")
    /\ \E k \in Keys : leases[k] # None /\ lse' = [lse EXCEPT ![h] = leases[k]]
    /\ UNCHANGED <<keyOf, deaths, up, leases, owner, phase, closed, att, client, status, disturbed>>

(* Mutant: a key that is not in the map is not noticed.                    *)
GetLeaseUnchecked(h) ==
    /\ Goto(h, "get", "close")
    /\ lse' = [lse EXCEPT ![h] = leases[keyOf[att[h]]]]
    /\ UNCHANGED <<keyOf, deaths, up, leases, owner, phase, closed, att, client, status, disturbed>>

GetLease(h) ==
    /\ Goto(h, "get", "close")
    /\ leases[keyOf[att[h]]] # None
    /\ lse' = [lse EXCEPT ![h] = leases[keyOf[att[h]]]]
    /\ UNCHANGED <<keyOf, deaths, up, leases, owner, phase, closed, att, client, status, disturbed>>

LeaseNotFound(h) ==
    /\ Goto(h, "get", "notFound")
    /\ leases[keyOf[att[h]]] = None
    /\ UNCHANGED <<keyOf, deaths, up, leases, owner, phase, closed, att, lse, client, status, disturbed>>

(* Mutant: Stop offers a message until the goroutine takes it, which one   *)
(* that no longer maintains the lease never does.                          *)
CloseStopBySend(h) ==
    /\ pc[h] = "close" /\ ~ closed[lse[h]]
    /\ \/ /\ phase[lse[h]] = "maintained"
          /\ Goto(h, "close", "wait")
          /\ closed' = [closed EXCEPT ![lse[h]] = TRUE]
          /\ UNCHANGED <<keyOf, deaths, up, leases, owner, phase, att, lse, client, status, disturbed>>
       \/ phase[lse[h]] # "maintained" /\ UNCHANGED vars

(* DHCPLease.Stop: close the channel, and wait for the goroutine.          *)
CloseStop(h) ==
    /\ Goto(h, "close", "wait")
    /\ ~ closed[lse[h]]
    /\ closed' = [closed EXCEPT ![lse[h]] = TRUE]
    /\ UNCHANGED <<keyOf, deaths, up, leases, owner, phase, att, lse, client, status, disturbed>>

(* Mutant: Stop does not wait for the goroutine.                           *)
StoppedUnwaited(h) ==
    /\ Goto(h, "wait", "deleted")
    /\ UNCHANGED <<keyOf, deaths, up, leases, owner, phase, closed, att, lse, client, status, disturbed>>

Stopped(h) ==
    /\ Goto(h, "wait", "deleted")
    /\ phase[lse[h]] = "over"
    /\ UNCHANGED <<keyOf, deaths, up, leases, owner, phase, closed, att, lse, client, status, disturbed>>

(* What the runtime knows of an attachment whose command breaks off: an    *)
(* ADD or a DEL may or may not have had its effect.                        *)
Interrupted ==
    [a \in Attachments |-> IF \E h \in Calls : client[h] /\ att[h] = a THEN "unknown" ELSE status[a]]

(* Closing a closed channel panics, and the panic of an RPC handler ends   *)
(* the daemon: no lease is maintained any more, every call breaks off.     *)
Panic(h) ==
    /\ pc[h] = "close"
    /\ closed[lse[h]]
    /\ up' = FALSE
    /\ leases' = [k \in Keys |-> None]
    /\ Collect(Leases)
    /\ pc' = [g \in Calls |-> "idle"]
    /\ att' = [g \in Calls |-> None]
    /\ lse' = [g \in Calls |-> None]
    /\ client' = [g \in Calls |-> FALSE]
    /\ status' = Interrupted
    /\ UNCHANGED <<keyOf, deaths, disturbed>>

Restart ==
    /\ ~ up
    /\ up' = TRUE
    /\ UNCHANGED <<keyOf, deaths, leases, owner, phase, closed, pc, att, lse, client, status, disturbed>>

-----------------------------------------------------------------------------
(* The goroutine of a lease, the reply, and the client.                    *)

(* maintain sees the closed channel and releases the lease.                *)
SeeStop(n) ==
    /\ phase[n] = "maintained" /\ closed[n]
    /\ phase' = [phase EXCEPT ![n] = "over"]
    /\ UNCHANGED <<keyOf, deaths, up, leases, owner, closed, pc, att, lse, client, status, disturbed>>

(* The lease expires: maintain takes the interface down and returns.       *)
Expire(n) ==
    /\ phase[n] = "maintained" /\ ~ closed[n]
    /\ phase' = [phase EXCEPT ![n] = "over"]
    /\ UNCHANGED <<keyOf, deaths, up, leases, owner, closed, pc, att, lse, client, status, disturbed>>

Outcome == [added |-> "attached", addFailed |-> "none", deleted |-> "none", notFound |-> "unknown"]

(* The handler returns, to a client that may be there no more.             *)
Reply(h) ==
    /\ pc[h] \in DOMAIN Outcome
    /\ status' = IF client[h] THEN [status EXCEPT ![att[h]] = Outcome[pc[h]]] ELSE status
    /\ pc' = [pc EXCEPT ![h] = "idle"]
    /\ att' = [att EXCEPT ![h] = None]
    /\ lse' = [lse EXCEPT ![h] = None]
    /\ client' = [client EXCEPT ![h] = FALSE]
    /\ UNCHANGED <<keyOf, deaths, up, leases, owner, phase, closed, disturbed>>

(* The plugin process is killed; the daemon does not notice.               *)
ClientDies(h) ==
    /\ client[h]
    /\ deaths < MaxDeaths
    /\ deaths' = deaths + 1
    /\ client' = [client EXCEPT ![h] = FALSE]
    /\ status' = [status EXCEPT ![att[h]] = "unknown"]
    /\ disturbed' = TRUE
    /\ UNCHANGED <<keyOf, up, leases, owner, phase, closed, pc, att, lse>>

Handle(h) ==
    \/ Acquired(h) \/ NotAcquired(h) \/ IPNet(h) \/ NoSubnetMask(h) \/ Undone(h) \/ SetLease(h)
    \/ GetLease(h) \/ LeaseNotFound(h) \/ CloseStop(h) \/ Panic(h) \/ Stopped(h) \/ Reply(h)

Next ==
    \/ \E h \in Calls, a \in Attachments : CallAllocate(h, a) \/ CallRelease(h, a)
    \/ \E h \in Calls : Handle(h) \/ ClientDies(h)
    \/ \E n \in Leases : SeeStop(n) \/ Expire(n)
    \/ Restart

Spec == Init /\ [][Next]_vars

(* Handlers are scheduled.  Nothing is assumed of the goroutine of a       *)
(* lease: as DHCPLease shows, the traffic on the link may keep it from     *)
(* ending an acquisition, and from seeing the closed channel.              *)
Fairness == \A h \in Calls : WF_vars(pc[h] # "acquire" /\ Handle(h))

FairSpec == Spec /\ Fairness

-----------------------------------------------------------------------------
(* The types of the variables; a handler that uses its lease has one.      *)
TypeOK ==
    /\ keyOf \in KeyMaps
    /\ deaths \in 0 .. MaxDeaths
    /\ up \in BOOLEAN
    /\ leases \in [Keys -> Leases \cup {None}]
    /\ owner \in [Leases -> Attachments \cup {None}]
    /\ phase \in [Leases -> {"free", "acquiring", "maintained", "over"}]
    /\ closed \in [Leases -> BOOLEAN]
    /\ pc \in [Calls -> {"idle", "get", "close", "wait"} \cup AddPCs \cup {"deleted", "notFound"}]
    /\ att \in [Calls -> Attachments \cup {None}]
    /\ lse \in [Calls -> Leases \cup {None}]
    /\ client \in [Calls -> BOOLEAN]
    /\ status \in [Attachments -> {"none", "adding", "attached", "deleting", "unknown"}]
    /\ disturbed \in BOOLEAN
    /\ \A h \in Calls : pc[h] \notin {"idle", "get", "notFound"} => lse[h] # None

(* The lease of an attached interface is in the map, and nobody has        *)
(* stopped it; it may only have expired.                                   *)
Maintained(a) ==
    LET n == leases[keyOf[a]] IN up /\ n # None /\ owner[n] = a /\ ~ closed[n]

(* "The acquired lease will be maintained until Release() is called", as   *)
(* long as no plugin process is killed, no DEL repeated and no two         *)
(* attachments of one key are up at a time: handlers of other calls        *)
(* neither replace nor stop it, also if keys are used by turns.            *)
AttachedIsMaintained ==
    ~ disturbed => \A a \in Attachments : status[a] = "attached" => Maintained(a)

(* "Release stops maintenance of the lease acquired in Allocate()": no     *)
(* lease is maintained for an attachment that the runtime was told is      *)
(* gone, under the same condition.                                         *)
DetachedIsStopped ==
    ~ disturbed => \A n \in Leases : phase[n] = "maintained" => status[owner[n]] # "none"

(* "The acquired lease will be maintained until Release() is called":      *)
(* what the comment on Allocate says without a condition.                  *)
MaintainedUntilRelease == \A a \in Attachments : status[a] = "attached" => Maintained(a)

(* A handler only ever stops a lease that was acquired under its own key,  *)
(* even if the daemon has died and come back in between.                   *)
StopsOwnKey ==
    \A h \in Calls : pc[h] \in {"close", "wait"} => keyOf[owner[lse[h]]] = keyOf[att[h]]

(* The goroutine of its lease, which has not come to an end yet, is what a *)
(* handler waits for.                                                      *)
AwaitsLease(h) ==
    \/ pc[h] = "acquire"
    \/ pc[h] \in {"undo", "wait"} /\ phase[lse[h]] = "maintained"

(* Every RPC is answered, or the daemon is gone, or the handler waits for  *)
(* ever for the goroutine of its own lease, which DHCPLease says only the  *)
(* traffic on the link can keep: no handler waits for a goroutine that has *)
(* ended, whether it was stopped or its lease expired, or for the mutex or *)
(* another call.                                                           *)
CallsReturn == \A h \in Calls : pc[h] # "idle" ~> pc[h] = "idle" \/ []AwaitsLease(h)
=============================================================================
