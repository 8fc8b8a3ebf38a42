-------------------------- MODULE DHCPDaemonProofs --------------------------
(***************************************************************************)
(* Proofs about the DHCP daemon, for any number of calls, attachments,     *)
(* keys and leases, and with keys that collide in any way.                 *)
(***************************************************************************)
EXTENDS DHCPDaemon, TLAPS

(* The handler of an Allocate that has not stored its lease yet.           *)
Allocating(h) == pc[h] \in {"acquire", "ipnet", "set", "undo"}

(* A handler works for an attachment, and has no lease before it gets one. *)
HandlersOK ==
    \A h \in Calls :
        /\ pc[h] # "idle" => att[h] \in Attachments
        /\ pc[h] \in {"idle", "get"} => lse[h] = None

(* A lease that is in the map was acquired under the key it is stored at.  *)
MapOK ==
    \A k \in Keys : leases[k] # None =>
        owner[leases[k]] \in Attachments /\ keyOf[owner[leases[k]]] = k

(* Until it is stored, a lease is its handler's alone.                     *)
AllocatingOK ==
    \A h \in Calls : Allocating(h) =>
        /\ owner[lse[h]] = att[h]
        /\ \A k \in Keys : leases[k] # lse[h]
        /\ \A g \in Calls : lse[g] = lse[h] => g = h

(* A handler that stops a lease has got it from its own key, and nobody    *)
(* reuses the object meanwhile.                                            *)
StoppingOK ==
    \A h \in Calls : pc[h] \in {"close", "wait"} =>
        owner[lse[h]] \in Attachments /\ keyOf[owner[lse[h]]] = keyOf[att[h]]

(* The inductive invariant.                                                *)
DInv == TypeOK /\ HandlersOK /\ MapOK /\ AllocatingOK /\ StoppingOK

-----------------------------------------------------------------------------
(* What holds until something disturbs it.                                 *)

Deleting(h) == pc[h] \in {"get", "close", "wait", "deleted"}

(* Every handler has its client, works for an attachment that nobody else  *)
(* works for, and a DEL has never missed its lease.                        *)
Orderly ==
    /\ up
    /\ \A a \in Attachments : status[a] # "unknown"
    /\ \A h \in Calls : pc[h] # "idle" =>
        /\ client[h]
        /\ pc[h] # "notFound"
        /\ status[att[h]] = IF Deleting(h) THEN "deleting" ELSE "adding"
    /\ \A g, h \in Calls : pc[g] # "idle" /\ pc[h] # "idle" /\ att[g] = att[h] => g = h

(* The lease of an attachment that is up is in the map from the end of its *)
(* Allocate until its Release closes the channel.                          *)
KeptOK ==
    /\ AttachedIsMaintained
    /\ \A h \in Calls : pc[h] \in {"added", "get", "close"} => Maintained(att[h])
    /\ \A h \in Calls : pc[h] \in {"added", "close"} => lse[h] = leases[keyOf[att[h]]]
    /\ \A h \in Calls : pc[h] \in {"acquire", "ipnet", "set"} => ~ closed[lse[h]]

(* The handler h has the lease n in hand.                                  *)
Has(h, n) ==
    \/ pc[h] \in {"ipnet", "set", "undo", "added", "close", "wait"} /\ lse[h] = n
    \/ pc[h] = "get" /\ leases[keyOf[att[h]]] = n

(* No lease is maintained but the one of an attachment that is up, or one  *)
(* that a handler for its attachment has in hand.                          *)
MaintainedOK ==
    \A n \in Leases : phase[n] = "maintained" =>
        /\ owner[n] \in Attachments
        /\ \/ status[owner[n]] = "attached" /\ n = leases[keyOf[owner[n]]]
           \/ \E h \in Calls : att[h] = owner[n] /\ Has(h, n)

(* The second inductive invariant: it needs the first one, and holds until *)
(* a plugin process is killed, a DEL repeated, or the lease of an          *)
(* attachment replaced by that of another one.                             *)
UInv == ~ disturbed => Orderly /\ KeptOK /\ MaintainedOK

(* A Boolean of a function is replaced.                                    *)
LEMMA SetBoolean ==
  ASSUME NEW S, NEW f \in [S -> BOOLEAN], NEW x, NEW b \in BOOLEAN
  PROVE  [f EXCEPT ![x] = b] \in [S -> BOOLEAN]
  OBVIOUS

(* The daemon starts with an empty map and no handler.                     *)
LEMMA InitOK == Init => DInv
<1> SUFFICES ASSUME Init PROVE DInv
  OBVIOUS
<1>1. TypeOK
  <2>1. /\ closed \in [Leases -> BOOLEAN] /\ client \in [Calls -> BOOLEAN]
        /\ up \in BOOLEAN /\ disturbed \in BOOLEAN
    BY Zenon DEF Init
  <2>2. deaths \in 0 .. MaxDeaths /\ keyOf \in KeyMaps
    BY DaemonAssumption DEF Init
  <2>3. /\ leases \in [Keys -> Leases \cup {None}] /\ owner \in [Leases -> Attachments \cup {None}]
        /\ att \in [Calls -> Attachments \cup {None}] /\ lse \in [Calls -> Leases \cup {None}]
    BY DEF Init
  <2>4. /\ phase \in [Leases -> {"free"}] /\ pc \in [Calls -> {"idle"}]
        /\ status \in [Attachments -> {"none"}]
    BY DEF Init
  <2> QED BY <2>1, <2>2, <2>3, <2>4 DEF TypeOK
<1>2. HandlersOK /\ MapOK /\ AllocatingOK /\ StoppingOK
  BY DEF Init, HandlersOK, MapOK, AllocatingOK, StoppingOK, Allocating
<1> QED BY <1>1, <1>2 DEF DInv

(* Allocate, up to the reply.                                              *)
LEMMA AllocatePreserves ==
  ASSUME DInv, NEW h \in Calls,
         \/ \E a \in Attachments : CallAllocate(h, a)
         \/ Acquired(h) \/ NotAcquired(h) \/ IPNet(h) \/ NoSubnetMask(h) \/ Undone(h) \/ SetLease(h)
  PROVE  DInv'
<1> USE DaemonAssumption
<1> USE DEF DInv, TypeOK, HandlersOK, MapOK, AllocatingOK, StoppingOK, Allocating, AddPCs, Goto
<1>1. ASSUME NEW a \in Attachments, CallAllocate(h, a) PROVE DInv'
  BY <1>1 DEF CallAllocate, Call, Unused
<1>2. CASE Acquired(h)
  BY <1>2 DEF Acquired
<1>3. CASE NotAcquired(h)
  BY <1>3 DEF NotAcquired, Collect
<1>4. CASE IPNet(h)
  BY <1>4 DEF IPNet
<1>5. CASE NoSubnetMask(h)
  <2>1. closed' \in [Leases -> BOOLEAN]
    BY <1>5, SetBoolean DEF NoSubnetMask
  <2>2. TypeOK'
    BY <1>5, <2>1 DEF NoSubnetMask
  <2>3. HandlersOK' /\ MapOK' /\ AllocatingOK' /\ StoppingOK'
    BY <1>5 DEF NoSubnetMask
  <2> QED BY <2>2, <2>3
<1>6. CASE Undone(h)
  BY <1>6 DEF Undone, Collect
<1>7. CASE SetLease(h)
  <2>1. TypeOK'
    BY <1>7 DEF SetLease, Collect, Collides
  <2>2. HandlersOK' /\ MapOK'
    BY <1>7 DEF SetLease, Collect
  <2>3. AllocatingOK' /\ StoppingOK'
    BY <1>7 DEF SetLease, Collect
  <2> QED BY <2>1, <2>2, <2>3
<1> QED BY <1>1, <1>2, <1>3, <1>4, <1>5, <1>6, <1>7

(* Release, up to the reply.                                               *)
LEMMA ReleasePreserves ==
  ASSUME DInv, NEW h \in Calls,
         \/ \E a \in Attachments : CallRelease(h, a)
         \/ GetLease(h) \/ LeaseNotFound(h) \/ CloseStop(h) \/ Panic(h) \/ Stopped(h)
  PROVE  DInv'
<1> USE DaemonAssumption
<1> USE DEF DInv, TypeOK, HandlersOK, MapOK, AllocatingOK, StoppingOK, Allocating, AddPCs, Goto
<1>1. ASSUME NEW a \in Attachments, CallRelease(h, a) PROVE DInv'
  BY <1>1 DEF CallRelease, Call
<1>2. CASE GetLease(h)
  <2>1. TypeOK' /\ HandlersOK' /\ MapOK' /\ AllocatingOK'
    BY <1>2 DEF GetLease
  <2>2. keyOf[att[h]] \in Keys
    BY <1>2 DEF GetLease
  <2>3. ASSUME NEW g \in Calls, (pc[g] \in {"close", "wait"})'
        PROVE  (owner[lse[g]] \in Attachments /\ keyOf[owner[lse[g]]] = keyOf[att[g]])'
    <3>1. CASE g = h
      BY <1>2, <2>2, <3>1 DEF GetLease
    <3>2. CASE g # h
      BY <1>2, <2>3, <3>2 DEF GetLease
    <3> QED BY <3>1, <3>2
  <2> QED BY <2>1, <2>3
<1>3. CASE LeaseNotFound(h)
  BY <1>3 DEF LeaseNotFound
<1>4. CASE CloseStop(h)
  BY <1>4 DEF CloseStop
<1>5. CASE Panic(h)
  BY <1>5 DEF Panic, Collect, Interrupted
<1>6. CASE Stopped(h)
  BY <1>6 DEF Stopped
<1> QED BY <1>1, <1>2, <1>3, <1>4, <1>5, <1>6

(* Replies, killed clients, the goroutines of leases, and a restart.       *)
LEMMA OthersPreserve ==
  ASSUME DInv,
         \/ \E h \in Calls : Reply(h) \/ ClientDies(h)
         \/ \E n \in Leases : SeeStop(n) \/ Expire(n)
         \/ Restart
  PROVE  DInv'
<1> USE DaemonAssumption
<1> USE DEF DInv, TypeOK, HandlersOK, MapOK, AllocatingOK, StoppingOK, Allocating, AddPCs
<1>1. ASSUME NEW h \in Calls, Reply(h) PROVE DInv'
  BY <1>1 DEF Reply, Outcome
<1>2. ASSUME NEW h \in Calls, ClientDies(h) PROVE DInv'
  <2>1. client' \in [Calls -> BOOLEAN] /\ disturbed' \in BOOLEAN
    BY <1>2, SetBoolean DEF ClientDies
  <2>2. TypeOK'
    <3>1. deaths \in 0 .. MaxDeaths /\ deaths < MaxDeaths /\ deaths' = deaths + 1
      BY <1>2, Zenon DEF ClientDies
    <3>2. deaths' \in 0 .. MaxDeaths
      BY <3>1
    <3>3. status' = [status EXCEPT ![att[h]] = "unknown"]
      BY <1>2, Zenon DEF ClientDies
    <3>4. status' \in [Attachments -> {"none", "adding", "attached", "deleting", "unknown"}]
      BY <3>3
    <3> QED BY <1>2, <2>1, <3>2, <3>4 DEF ClientDies
  <2>3. HandlersOK' /\ MapOK' /\ AllocatingOK' /\ StoppingOK'
    BY <1>2 DEF ClientDies
  <2> QED BY <2>2, <2>3
<1>3. ASSUME NEW n \in Leases, SeeStop(n) \/ Expire(n) PROVE DInv'
  BY <1>3 DEF SeeStop, Expire
<1>4. CASE Restart
  BY <1>4 DEF Restart
<1> QED BY <1>1, <1>2, <1>3, <1>4

(* Whatever the calls, deaths, panics and restarts: the map only has       *)
(* leases under the key they were acquired for, and the object a handler   *)
(* of Allocate or Release works on is not reused under it.                 *)
THEOREM DaemonInvariance == Spec => []DInv
<1>1. DInv /\ [Next]_vars => DInv'
  <2> SUFFICES ASSUME DInv, [Next]_vars PROVE DInv'
    OBVIOUS
  <2>1. CASE UNCHANGED vars
    BY <2>1 DEF vars, DInv, TypeOK, HandlersOK, MapOK, AllocatingOK, StoppingOK, Allocating
  <2>2. CASE Next
    BY <2>2, AllocatePreserves, ReleasePreserves, OthersPreserve DEF Next, Handle
  <2> QED BY <2>1, <2>2
<1> QED BY InitOK, <1>1, PTL DEF Spec

(* Nothing is maintained when the daemon starts.                           *)
LEMMA InitUndisturbed == Init => UInv
  BY DEF Init, UInv, Orderly, KeptOK, MaintainedOK, AttachedIsMaintained

(* The steps of Allocate.                                                  *)
LEMMA AllocateUndisturbed ==
  ASSUME DInv, DInv', UInv, ~ disturbed', NEW h \in Calls,
         \/ \E a \in Attachments : CallAllocate(h, a)
         \/ Acquired(h) \/ NotAcquired(h) \/ IPNet(h) \/ NoSubnetMask(h) \/ Undone(h) \/ SetLease(h)
  PROVE  (Orderly /\ KeptOK /\ MaintainedOK)'
<1> USE DaemonAssumption
<1> USE DEF DInv, TypeOK, HandlersOK, MapOK, AllocatingOK, Allocating, AddPCs, Goto,
            Orderly, Deleting, KeptOK, AttachedIsMaintained, Maintained, MaintainedOK, Has
<1>0. ~ disturbed /\ Orderly /\ KeptOK /\ MaintainedOK
  BY DEF UInv, CallAllocate, Acquired, NotAcquired, IPNet, NoSubnetMask, Undone, SetLease
<1>1. ASSUME NEW a \in Attachments, CallAllocate(h, a) PROVE (Orderly /\ KeptOK /\ MaintainedOK)'
  <2>1. Orderly'
    BY <1>0, <1>1 DEF CallAllocate, Call, ContainerIdle
  <2>a. PICK n \in Leases :
            /\ Unused(n) /\ lse' = [lse EXCEPT ![h] = n] /\ closed' = [closed EXCEPT ![n] = FALSE]
            /\ owner' = [owner EXCEPT ![n] = a] /\ phase' = [phase EXCEPT ![n] = "acquiring"]
    BY <1>1 DEF CallAllocate
  <2>b. /\ pc[h] = "idle" /\ status[a] = "none" /\ UNCHANGED <<keyOf, up, leases, disturbed>>
        /\ pc' = [pc EXCEPT ![h] = "acquire"] /\ att' = [att EXCEPT ![h] = a]
        /\ status' = [status EXCEPT ![a] = "adding"]
    BY <1>1 DEF CallAllocate, Call
  <2>c. /\ ~ closed'[n] /\ \A k \in Keys : leases[k] # n
        /\ \A m \in Leases \ {n} : owner'[m] = owner[m] /\ phase'[m] = phase[m] /\ closed'[m] = closed[m]
        /\ phase'[n] = "acquiring" /\ \A g \in Calls : lse[g] # n
    BY <2>a DEF Unused
  <2>d. /\ pc'[h] = "acquire" /\ lse'[h] = n /\ att'[h] = a
        /\ \A g \in Calls \ {h} : pc'[g] = pc[g] /\ lse'[g] = lse[g] /\ att'[g] = att[g]
    BY <2>a, <2>b
  <2>2. KeptOK'
    <3>1. \A b \in Attachments : Maintained(b) => Maintained(b)'
      BY <2>b, <2>c
    <3>2. AttachedIsMaintained'
      BY <1>0, <2>b, <3>1
    <3>3. \A g \in Calls : (pc[g] \in {"added", "get", "close"})' => Maintained(att[g])'
      BY <1>0, <2>d, <3>1
    <3>4. \A g \in Calls : (pc[g] \in {"added", "close"})' => lse[g]' = leases[keyOf[att[g]]]'
      BY <1>0, <2>b, <2>d
    <3>5. \A g \in Calls : (pc[g] \in {"acquire", "ipnet", "set"})' => ~ closed[lse[g]]'
      BY <1>0, <2>c, <2>d
    <3> QED BY <3>2, <3>3, <3>4, <3>5
  <2>3. MaintainedOK'
    <3>1. ASSUME NEW m \in Leases, phase'[m] = "maintained"
          PROVE  /\ m # n /\ phase[m] = "maintained" /\ owner'[m] = owner[m]
                 /\ status[owner[m]] = "attached" => status'[owner[m]] = "attached"
      BY <1>0, <2>b, <2>c, <3>1
    <3>2. \A g \in Calls, m \in Leases : Has(g, m) => g # h /\ Has(g, m)'
      BY <2>b, <2>d
    <3> QED BY <1>0, <2>b, <2>d, <3>1, <3>2
  <2> QED BY <2>1, <2>2, <2>3
<1>2. CASE Acquired(h)
  <2>1. Orderly' /\ KeptOK'
    BY <1>0, <1>2 DEF Acquired
  <2>2. MaintainedOK'
    BY <1>0, <1>2 DEF Acquired
  <2> QED BY <2>1, <2>2
<1>3. CASE NotAcquired(h)
  <2>1. Orderly'
    BY <1>0, <1>3 DEF NotAcquired
  <2>2. KeptOK'
    BY <1>0, <1>3 DEF NotAcquired, Collect
  <2>3. MaintainedOK'
    BY <1>0, <1>3 DEF NotAcquired, Collect
  <2> QED BY <2>1, <2>2, <2>3
<1>4. CASE IPNet(h)
  <2>1. Orderly' /\ KeptOK'
    BY <1>0, <1>4 DEF IPNet
  <2>2. MaintainedOK'
    BY <1>0, <1>4 DEF IPNet
  <2> QED BY <2>1, <2>2
<1>5. CASE NoSubnetMask(h)
  <2>1. Orderly'
    BY <1>0, <1>5 DEF NoSubnetMask
  <2>2. KeptOK'
    BY <1>0, <1>5 DEF NoSubnetMask
  <2>3. MaintainedOK'
    BY <1>0, <1>5 DEF NoSubnetMask
  <2> QED BY <2>1, <2>2, <2>3
<1>6. CASE Undone(h)
  <2>1. Orderly'
    BY <1>0, <1>6 DEF Undone
  <2>2. KeptOK'
    BY <1>0, <1>6 DEF Undone, Collect
  <2>3. MaintainedOK'
    BY <1>0, <1>6 DEF Undone, Collect
  <2> QED BY <2>1, <2>2, <2>3
<1>7. CASE SetLease(h)
  <2>1. Orderly'
    BY <1>0, <1>7 DEF SetLease
  <2>a. /\ pc[h] = "set" /\ pc'[h] = "added" /\ \A g \in Calls \ {h} : pc'[g] = pc[g]
        /\ att[h] \in Attachments /\ lse[h] \in Leases /\ owner[lse[h]] = att[h]
        /\ UNCHANGED <<keyOf, up, att, lse, status>>
    BY <1>7 DEF SetLease
  <2>b. /\ leases'[keyOf[att[h]]] = lse[h]
        /\ \A k \in Keys \ {keyOf[att[h]]} : leases'[k] = leases[k]
    BY <1>7, <2>a DEF SetLease
  <2>c. ~ Collides(att[h]) /\ ~ disturbed
    BY <1>0, <1>7, Zenon DEF SetLease
  <2>d. \A n \in Leases :
            \/ owner'[n] = owner[n] /\ phase'[n] = phase[n] /\ (closed'[n] <=> closed[n])
            \/ phase'[n] = "free" /\ n = leases[keyOf[att[h]]] /\ \A g \in Calls : lse[g] # n
    BY <1>7 DEF SetLease, Collect
  <2>2. KeptOK'
    <3>1. ASSUME NEW a \in Attachments, Maintained(a), a # att[h] PROVE Maintained(a)'
      <4>1. keyOf[a] # keyOf[att[h]]
        BY <2>a, <2>c, <3>1 DEF Collides
      <4>2. leases[keyOf[a]] \in Leases /\ leases[keyOf[a]] # leases[keyOf[att[h]]]
        BY <2>a, <3>1, <4>1
      <4> QED BY <2>a, <2>b, <2>d, <3>1, <4>1, <4>2
    <3>2. Maintained(att[h])' /\ lse[h]' = leases[keyOf[att[h]]]'
      <4>1. ~ closed[lse[h]]
        BY <1>0, <2>a
      <4>2. owner'[lse[h]] = att[h] /\ ~ closed'[lse[h]]
        BY <2>a, <2>d, <4>1
      <4> QED BY <1>0, <2>a, <2>b, <4>2
    <3>3. AttachedIsMaintained'
      BY <1>0, <2>a, <3>1, <3>2
    <3>4. \A g \in Calls : (pc[g] \in {"added", "get", "close"})' => Maintained(att[g])'
      <4>1. \A g \in Calls \ {h} : pc[g] \in {"added", "get", "close"} =>
                Maintained(att[g]) /\ att[g] \in Attachments
        BY <1>0
      <4> HIDE DEF Maintained
      <4> QED BY <2>a, <3>1, <3>2, <4>1
    <3>5. \A g \in Calls : (pc[g] \in {"added", "close"})' => lse[g]' = leases[keyOf[att[g]]]'
      <4>1. ASSUME NEW g \in Calls \ {h}, pc[g] \in {"added", "close"}
            PROVE  lse[g] = leases[keyOf[att[g]]] /\ keyOf[att[g]] \in Keys \ {keyOf[att[h]]}
        <5>1. Maintained(att[g]) /\ att[g] \in Attachments \ {att[h]} /\ lse[g] = leases[keyOf[att[g]]]
          BY <1>0, <2>a, <4>1
        <5>2. keyOf[att[g]] # keyOf[att[h]]
          BY <2>a, <2>c, <5>1 DEF Collides
        <5> QED BY <5>1, <5>2
      <4> HIDE DEF DInv, Orderly, KeptOK, MaintainedOK, Maintained
      <4> QED BY <2>a, <2>b, <3>2, <4>1
    <3>6. ASSUME NEW g \in Calls, (pc[g] \in {"acquire", "ipnet", "set"})' PROVE ~ closed[lse[g]]'
      <4>1. lse[g] \in Leases /\ pc[g] \in {"acquire", "ipnet", "set"} /\ lse' = lse
        BY <1>7, <3>6 DEF SetLease
      <4>2. \A n \in Leases : ~ closed[n] => ~ closed'[n]
        BY <1>7, Zenon DEF SetLease, Collect
      <4> QED BY <1>0, <4>1, <4>2
    <3> QED BY <3>3, <3>4, <3>5, <3>6
  <2>3. MaintainedOK'
    <3>1. ASSUME NEW n \in Leases, phase'[n] = "maintained"
          PROVE  phase[n] = "maintained" /\ owner'[n] = owner[n] /\ owner[n] \in Attachments
      BY <1>0, <2>d, <3>1
    <3>2. ASSUME NEW n \in Leases, NEW g \in Calls, Has(g, n), att[g] = owner[n] PROVE Has(g, n)'
      <4>1. CASE pc[g] = "get"
        <5>1. Maintained(att[g]) /\ att[g] \in Attachments \ {att[h]}
          BY <1>0, <2>a, <4>1
        <5>2. keyOf[att[g]] # keyOf[att[h]]
          BY <2>a, <2>c, <5>1 DEF Collides
        <5> QED BY <2>a, <2>b, <3>2, <4>1, <5>1, <5>2
      <4>2. CASE pc[g] # "get"
        BY <2>a, <3>2, <4>2
      <4> QED BY <4>1, <4>2
    <3>3. ASSUME NEW n \in Leases, owner[n] \in Attachments, status[owner[n]] = "attached",
                 n = leases[keyOf[owner[n]]]
          PROVE  n = leases'[keyOf[owner[n]]]
      <4>1. Maintained(owner[n]) /\ owner[n] # att[h]
        BY <1>0, <2>a, <3>3
      <4>2. keyOf[owner[n]] # keyOf[att[h]]
        BY <2>a, <2>c, <4>1 DEF Collides
      <4> QED BY <2>b, <3>3, <4>2
    <3>4. MaintainedOK
      BY <1>0
    <3> HIDE DEF Has, DInv
    <3> QED BY <2>a, <3>1, <3>2, <3>3, <3>4
  <2> QED BY <2>1, <2>2, <2>3
<1> QED BY <1>1, <1>2, <1>3, <1>4, <1>5, <1>6, <1>7

(* The steps of Release.                                                   *)
LEMMA ReleaseUndisturbed ==
  ASSUME DInv, DInv', UInv, ~ disturbed', NEW h \in Calls,
         \/ \E a \in Attachments : CallRelease(h, a)
         \/ GetLease(h) \/ LeaseNotFound(h) \/ CloseStop(h) \/ Panic(h) \/ Stopped(h)
  PROVE  (Orderly /\ KeptOK /\ MaintainedOK)'
<1> USE DaemonAssumption
<1> USE DEF DInv, TypeOK, HandlersOK, MapOK, AllocatingOK, Allocating, AddPCs, Goto,
            Orderly, Deleting, KeptOK, AttachedIsMaintained, Maintained, MaintainedOK, Has
<1>0. ~ disturbed /\ Orderly /\ KeptOK /\ MaintainedOK
  BY DEF UInv, CallRelease, GetLease, LeaseNotFound, CloseStop, Panic, Stopped
<1>1. ASSUME NEW a \in Attachments, CallRelease(h, a) PROVE (Orderly /\ KeptOK /\ MaintainedOK)'
  <2>1. Orderly'
    BY <1>0, <1>1 DEF CallRelease, Call, ContainerIdle
  <2>2. KeptOK'
    <3>1. status[a] = "attached" /\ Maintained(a)
      BY <1>0, <1>1 DEF CallRelease
    <3>2. /\ UNCHANGED <<keyOf, up, leases, owner, closed, lse>>
          /\ status' = [status EXCEPT ![a] = "deleting"]
          /\ pc' = [pc EXCEPT ![h] = "get"] /\ att' = [att EXCEPT ![h] = a]
      BY <1>1 DEF CallRelease, Call
    <3>3. \A b \in Attachments : Maintained(b) => Maintained(b)'
      BY <3>2, Zenon
    <3>4. AttachedIsMaintained'
      BY <1>0, <3>2, <3>3
    <3>5. \A g \in Calls : (pc[g] \in {"added", "get", "close"})' => Maintained(att[g])'
      BY <1>0, <3>1, <3>2, <3>3
    <3>6. \A g \in Calls : (pc[g] \in {"added", "close"})' => lse[g]' = leases[keyOf[att[g]]]'
      BY <1>0, <3>2
    <3>7. \A g \in Calls : (pc[g] \in {"acquire", "ipnet", "set"})' => ~ closed[lse[g]]'
      BY <1>0, <3>2
    <3> QED BY <3>4, <3>5, <3>6, <3>7
  <2>3. MaintainedOK'
    BY <1>0, <1>1 DEF CallRelease, Call
  <2> QED BY <2>1, <2>2, <2>3
<1>2. CASE GetLease(h)
  <2>1. Orderly'
    BY <1>0, <1>2 DEF GetLease
  <2>2. KeptOK'
    BY <1>0, <1>2 DEF GetLease
  <2>3. MaintainedOK'
    BY <1>0, <1>2 DEF GetLease
  <2> QED BY <2>1, <2>2, <2>3
<1>3. CASE LeaseNotFound(h)
  BY <1>0, <1>3 DEF LeaseNotFound
<1>4. CASE CloseStop(h)
  <2>1. Orderly'
    BY <1>0, <1>4 DEF CloseStop
  <2>2. KeptOK'
    BY <1>0, <1>4 DEF CloseStop
  <2>3. MaintainedOK'
    BY <1>0, <1>4 DEF CloseStop
  <2> QED BY <2>1, <2>2, <2>3
<1>5. CASE Panic(h)
  BY <1>0, <1>5 DEF Panic
<1>6. CASE Stopped(h)
  <2>1. Orderly' /\ KeptOK'
    BY <1>0, <1>6 DEF Stopped
  <2>2. MaintainedOK'
    BY <1>0, <1>6 DEF Stopped
  <2> QED BY <2>1, <2>2
<1> QED BY <1>1, <1>2, <1>3, <1>4, <1>5, <1>6

(* The other steps.                                                        *)
LEMMA OthersUndisturbed ==
  ASSUME DInv, DInv', UInv, ~ disturbed',
         \/ \E h \in Calls : Reply(h) \/ ClientDies(h)
         \/ \E n \in Leases : SeeStop(n) \/ Expire(n)
         \/ Restart
  PROVE  (Orderly /\ KeptOK /\ MaintainedOK)'
<1> USE DaemonAssumption
<1> USE DEF DInv, TypeOK, HandlersOK, MapOK, AllocatingOK, Allocating, AddPCs,
            Orderly, Deleting, KeptOK, AttachedIsMaintained, Maintained, MaintainedOK, Has
<1>0. ~ disturbed /\ Orderly /\ KeptOK /\ MaintainedOK
  BY DEF UInv, Reply, ClientDies, SeeStop, Expire, Restart
<1>1. ASSUME NEW h \in Calls, Reply(h) PROVE (Orderly /\ KeptOK /\ MaintainedOK)'
  <2>1. Orderly'
    BY <1>0, <1>1 DEF Reply, Outcome
  <2>2. KeptOK'
    <3>1. /\ pc'[h] = "idle" /\ UNCHANGED <<keyOf, up, leases, owner, closed, disturbed>>
          /\ \A g \in Calls \ {h} : pc'[g] = pc[g] /\ att'[g] = att[g] /\ lse'[g] = lse[g]
      BY <1>1 DEF Reply
    <3>2. \A a \in Attachments : Maintained(a) => Maintained(a)'
      BY <3>1
    <3>3. \A a \in Attachments : status'[a] = "attached" =>
              status[a] = "attached" \/ (a = att[h] /\ pc[h] = "added")
      BY <1>1 DEF Reply, Outcome
    <3>4. AttachedIsMaintained'
      BY <1>0, <3>2, <3>3
    <3> QED BY <1>0, <3>1, <3>2, <3>4
  <2>3. MaintainedOK'
    BY <1>0, <1>1 DEF Reply, Outcome
  <2> QED BY <2>1, <2>2, <2>3
<1>2. ASSUME NEW h \in Calls, ClientDies(h) PROVE FALSE
  BY <1>2, Zenon DEF ClientDies
<1>3. ASSUME NEW n \in Leases, SeeStop(n) \/ Expire(n) PROVE (Orderly /\ KeptOK /\ MaintainedOK)'
  <2>1. /\ UNCHANGED <<keyOf, up, leases, owner, closed, pc, att, lse, client, status>>
        /\ phase' = [phase EXCEPT ![n] = "over"]
    BY <1>3, Zenon DEF SeeStop, Expire
  <2>2. Orderly'
    BY <1>0, <2>1
  <2>3. KeptOK'
    BY <1>0, <2>1
  <2>4. MaintainedOK'
    BY <1>0, <2>1
  <2> QED BY <2>2, <2>3, <2>4
<1>4. CASE Restart
  BY <1>0, <1>4 DEF Restart
<1> QED BY <1>1, <1>2, <1>3, <1>4

(* Until something disturbs it, the daemon keeps the lease of an           *)
(* attachment from the end of Allocate until Release closes its channel,   *)
(* and keeps no other lease alive; in particular, no handler finds its     *)
(* lease missing or its channel closed, so the daemon neither fails a DEL  *)
(* nor panics.                                                             *)
THEOREM UndisturbedInvariance == Spec => []UInv
<1>1. DInv /\ DInv' /\ UInv /\ [Next]_vars => UInv'
  <2> SUFFICES ASSUME DInv, DInv', UInv, [Next]_vars, ~ disturbed'
               PROVE  (Orderly /\ KeptOK /\ MaintainedOK)'
    BY DEF UInv
  <2>1. CASE UNCHANGED vars
    BY <2>1 DEF vars, UInv, Orderly, Deleting, KeptOK, AttachedIsMaintained, Maintained, MaintainedOK, Has
  <2>2. CASE Next
    BY <2>2, AllocateUndisturbed, ReleaseUndisturbed, OthersUndisturbed DEF Next, Handle
  <2> QED BY <2>1, <2>2
<1> QED BY InitUndisturbed, DaemonInvariance, <1>1, PTL DEF Spec

(* "The acquired lease will be maintained until Release() is called": the  *)
(* lease of an attached interface stays in the map and is not stopped by   *)
(* the handlers of other calls, as long as nothing disturbs it.            *)
THEOREM MaintainedWhileAttached == Spec => []AttachedIsMaintained
<1>1. UInv => AttachedIsMaintained
  BY DEF UInv, KeptOK, AttachedIsMaintained
<1> QED BY <1>1, UndisturbedInvariance, PTL

(* "Release stops maintenance of the lease acquired in Allocate()": when   *)
(* the runtime was told that an attachment is gone, the daemon has no      *)
(* goroutine that maintains a lease for it, under the same condition.      *)
THEOREM StoppedWhenDetached == Spec => []DetachedIsStopped
<1>1. DInv /\ UInv => DetachedIsStopped
  BY DEF UInv, Orderly, Deleting, MaintainedOK, Has, DInv, HandlersOK, DetachedIsStopped
<1> QED BY <1>1, DaemonInvariance, UndisturbedInvariance, PTL

(* Release stops no lease but one that was acquired under its own key,     *)
(* without any condition: also when clients die, keys collide, or the      *)
(* daemon panics and comes back.                                           *)
THEOREM StopsOnlyItsKey == Spec => []StopsOwnKey
<1>1. DInv => StopsOwnKey
  BY DEF DInv, StoppingOK, StopsOwnKey
<1> QED BY <1>1, DaemonInvariance, PTL

(* Type correctness of the daemon; a handler that uses its lease has one.  *)
THEOREM DaemonTypes == Spec => []TypeOK
<1>1. DInv => TypeOK
  BY DEF DInv
<1> QED BY <1>1, DaemonInvariance, PTL

-----------------------------------------------------------------------------
(* The life cycle of a lease                                               *)

CycleOf(n) == INSTANCE LeaseCycle WITH phase <- phase[n], closed <- closed[n]

Begun == {"maintained", "over"}

(* What a handler and the map refer to has been acquired, unless it is     *)
(* being acquired, and only then its channel may be closed.                *)
PhasesOK ==
    /\ \A n \in Leases : closed[n] => phase[n] \in Begun
    /\ \A k \in Keys : leases[k] # None => phase[leases[k]] \in Begun
    /\ \A h \in Calls :
        /\ pc[h] = "acquire" => phase[lse[h]] = "acquiring"
        /\ pc[h] \in {"ipnet", "set", "undo", "close", "wait"} => phase[lse[h]] \in Begun
        /\ pc[h] \in {"ipnet", "set"} => ~ closed[lse[h]]

LEMMA PhasesStep == DInv /\ PhasesOK /\ [Next]_vars => PhasesOK'
<1> SUFFICES ASSUME DInv, PhasesOK, [Next]_vars PROVE PhasesOK'
  OBVIOUS
<1> USE DaemonAssumption
<1> USE DEF DInv, TypeOK, HandlersOK, MapOK, AllocatingOK, Allocating, Begun, PhasesOK, Goto
<1>1. ASSUME NEW h \in Calls, NEW a \in Attachments, CallAllocate(h, a) PROVE PhasesOK'
  BY <1>1 DEF CallAllocate, Call, Unused
<1>2. ASSUME NEW h \in Calls, NEW a \in Attachments, CallRelease(h, a) PROVE PhasesOK'
  BY <1>2 DEF CallRelease, Call
<1>3. ASSUME NEW h \in Calls, Acquired(h) PROVE PhasesOK'
  BY <1>3 DEF Acquired
<1>4. ASSUME NEW h \in Calls, NotAcquired(h) \/ Undone(h) PROVE PhasesOK'
  <2>1. Allocating(h) /\ Collect({lse[h]}) /\ UNCHANGED <<leases, lse>> /\ pc' = [pc EXCEPT ![h] = "addFailed"]
    BY <1>4 DEF NotAcquired, Undone
  <2>2. \A n \in Leases : n # lse[h] => phase'[n] = phase[n] /\ (closed'[n] <=> closed[n])
    BY <2>1 DEF Collect
  <2>3. ~ closed'[lse[h]]
    BY <2>1 DEF Collect
  <2>4. \A g \in Calls : g # h => pc'[g] = pc[g] /\ lse'[g] = lse[g] /\ lse[g] # lse[h]
    BY <2>1
  <2>5. \A k \in Keys : leases'[k] = leases[k] /\ leases[k] # lse[h]
    BY <2>1
  <2>6. pc'[h] = "addFailed"
    BY <2>1
  <2>7. \A n \in Leases : closed'[n] => phase'[n] \in Begun
    BY <2>2, <2>3
  <2>8. \A k \in Keys : leases'[k] # None => phase'[leases'[k]] \in Begun
    BY <2>2, <2>5
  <2>9. ASSUME NEW g \in Calls
        PROVE  /\ pc'[g] = "acquire" => phase'[lse'[g]] = "acquiring"
               /\ pc'[g] \in {"ipnet", "set", "undo", "close", "wait"} => phase'[lse'[g]] \in Begun
               /\ pc'[g] \in {"ipnet", "set"} => ~ closed'[lse'[g]]
    <3>1. CASE g = h
      BY <2>6, <3>1
    <3>2. CASE g # h
      BY <2>2, <2>4, <3>2
    <3> QED BY <3>1, <3>2
  <2> QED BY <2>7, <2>8, <2>9
<1>5. ASSUME NEW h \in Calls, IPNet(h) \/ LeaseNotFound(h) \/ Stopped(h) PROVE PhasesOK'
  BY <1>5 DEF IPNet, LeaseNotFound, Stopped
<1>6. ASSUME NEW h \in Calls, NoSubnetMask(h) \/ CloseStop(h) PROVE PhasesOK'
  BY <1>6 DEF NoSubnetMask, CloseStop
<1>7. ASSUME NEW h \in Calls, SetLease(h) PROVE PhasesOK'
  <2> DEFINE k0 == keyOf[att[h]]
             Gone(n) == n = leases[k0] /\ phase[n] = "over" /\ \A g \in Calls : lse[g] # n
  <2>1. /\ pc[h] = "set" /\ lse[h] # None /\ lse[h] \in Leases /\ k0 \in Keys
        /\ leases' = [leases EXCEPT ![k0] = lse[h]] /\ lse' = lse /\ pc' = [pc EXCEPT ![h] = "added"]
    BY <1>7 DEF SetLease
  <2>2. \A n \in Leases : ~ Gone(n) => phase'[n] = phase[n] /\ (closed'[n] <=> closed[n])
    BY <1>7 DEF SetLease, Collect
  <2>3. \A n \in Leases : Gone(n) => ~ closed'[n]
    BY <1>7 DEF SetLease, Collect
  <2>4. \A g \in Calls : ~ Gone(lse[g])
    OBVIOUS
  <2>5. ASSUME NEW k \in Keys, k # k0, leases[k] # None PROVE ~ Gone(leases[k])
    BY <2>1, <2>5
  <2>6. \A n \in Leases : closed'[n] => phase'[n] \in Begun
    <3> HIDE DEF Gone
    <3> QED BY <2>2, <2>3
  <2>7. \A k \in Keys : leases'[k] # None => phase'[leases'[k]] \in Begun
    <3> HIDE DEF Gone
    <3> SUFFICES ASSUME NEW k \in Keys, leases'[k] # None PROVE phase'[leases'[k]] \in Begun
      OBVIOUS
    <3>1. CASE k = k0
      BY <2>1, <2>2, <2>4, <3>1
    <3>2. CASE k # k0
      BY <2>1, <2>2, <2>5, <3>2
    <3> QED BY <3>1, <3>2
  <2>8. ASSUME NEW g \in Calls
        PROVE  /\ pc'[g] = "acquire" => phase'[lse'[g]] = "acquiring"
               /\ pc'[g] \in {"ipnet", "set", "undo", "close", "wait"} => phase'[lse'[g]] \in Begun
               /\ pc'[g] \in {"ipnet", "set"} => ~ closed'[lse'[g]]
    <3> HIDE DEF Gone
    <3>1. CASE g = h
      BY <2>1, <3>1
    <3>2. CASE g # h
      BY <2>1, <2>2, <2>4, <3>2
    <3> QED BY <3>1, <3>2
  <2> QED BY <2>6, <2>7, <2>8
<1>8. ASSUME NEW h \in Calls, GetLease(h) PROVE PhasesOK'
  BY <1>8 DEF GetLease
<1>9. ASSUME NEW h \in Calls, Panic(h) PROVE PhasesOK'
  BY <1>9 DEF Panic, Collect
<1>10. ASSUME NEW h \in Calls, Reply(h) \/ ClientDies(h) PROVE PhasesOK'
  BY <1>10 DEF Reply, ClientDies, Outcome
<1>11. ASSUME NEW n \in Leases, SeeStop(n) \/ Expire(n) PROVE PhasesOK'
  BY <1>11 DEF SeeStop, Expire
<1>12. CASE Restart \/ UNCHANGED vars
  BY <1>12 DEF Restart, vars
<1> QED BY <1>1, <1>2, <1>3, <1>4, <1>5, <1>6, <1>7, <1>8, <1>9, <1>10, <1>11, <1>12 DEF Next, Handle

(* What a step may do to the object of a lease.                            *)
Moves(n) ==
    \/ phase'[n] = phase[n] /\ (closed'[n] <=> closed[n])
    \/ phase[n] \in {"free", "over"} /\ phase'[n] = "acquiring" /\ ~ closed'[n]
    \/ phase[n] = "acquiring" /\ phase'[n] = "maintained" /\ (closed'[n] <=> closed[n])
    \/ phase[n] \in Begun /\ ~ closed[n] /\ closed'[n] /\ phase'[n] = phase[n]
    \/ phase[n] = "maintained" /\ phase'[n] = "over" /\ (closed'[n] <=> closed[n])
    \/ phase'[n] = "free" /\ ~ closed'[n]

LEMMA StepMoves ==
    ASSUME DInv, PhasesOK, [Next]_vars, NEW n \in Leases
    PROVE  Moves(n)
<1> USE DaemonAssumption
<1> USE DEF DInv, TypeOK, HandlersOK, Begun, PhasesOK, Goto, Moves
<1>1. ASSUME NEW h \in Calls, NEW a \in Attachments, CallAllocate(h, a) PROVE Moves(n)
  BY <1>1 DEF CallAllocate, Unused
<1>2. ASSUME NEW h \in Calls, NEW a \in Attachments, CallRelease(h, a) PROVE Moves(n)
  BY <1>2 DEF CallRelease
<1>3. ASSUME NEW h \in Calls, Acquired(h) PROVE Moves(n)
  BY <1>3 DEF Acquired
<1>4. ASSUME NEW h \in Calls, NotAcquired(h) \/ Undone(h) \/ SetLease(h) \/ Panic(h) PROVE Moves(n)
  <2>1. PICK S : Collect(S)
    BY <1>4 DEF NotAcquired, Undone, SetLease, Panic
  <2> QED BY <2>1 DEF Collect
<1>5. ASSUME NEW h \in Calls, IPNet(h) \/ LeaseNotFound(h) \/ Stopped(h) \/ GetLease(h) \/ Reply(h) \/ ClientDies(h)
      PROVE  Moves(n)
  BY <1>5 DEF IPNet, LeaseNotFound, Stopped, GetLease, Reply, ClientDies
<1>6. ASSUME NEW h \in Calls, NoSubnetMask(h) \/ CloseStop(h) PROVE Moves(n)
  BY <1>6 DEF NoSubnetMask, CloseStop
<1>7. ASSUME NEW m \in Leases, SeeStop(m) \/ Expire(m) PROVE Moves(n)
  BY <1>7 DEF SeeStop, Expire
<1>8. CASE Restart \/ UNCHANGED vars
  BY <1>8 DEF Restart, vars
<1> HIDE DEF Moves
<1> QED BY <1>1, <1>2, <1>3, <1>4, <1>5, <1>6, <1>7, <1>8 DEF Next, Handle

(* Handlers, panics and the reuse of objects keep to the life cycle.       *)
LEMMA CycleStep ==
    ASSUME NEW n \in Leases
    PROVE  DInv /\ DInv' /\ PhasesOK /\ [Next]_vars => [CycleOf(n)!Next]_<<phase[n], closed[n]>>
<1> SUFFICES ASSUME DInv, DInv', PhasesOK, [Next]_vars PROVE [CycleOf(n)!Next]_<<phase[n], closed[n]>>
  OBVIOUS
<1>1. Moves(n)
  BY StepMoves
<1>2. closed[n] \in BOOLEAN /\ closed'[n] \in BOOLEAN
  BY DEF DInv, TypeOK
<1> QED BY Zenon, <1>1, <1>2 DEF Moves, Begun, CycleOf!Next, CycleOf!Start, CycleOf!Acquired, CycleOf!Failed,
    CycleOf!Stop, CycleOf!End, CycleOf!Discard

(* Every lease of the daemon goes through the life cycle of LeaseCycle,    *)
(* whatever clients die and however often the daemon panics: no handler    *)
(* closes the channel of a lease that is not acquired yet, or a second     *)
(* time without a panic, and an object that is over is only used for a new *)
(* lease, with a new channel.                                              *)
THEOREM LeasesFollowCycle ==
    ASSUME NEW n \in Leases
    PROVE  Spec => CycleOf(n)!Spec
<1>1. Init => PhasesOK /\ CycleOf(n)!Init
  BY DEF Init, PhasesOK, Begun, CycleOf!Init
<1>2. DInv /\ DInv' /\ PhasesOK /\ [Next]_vars => [CycleOf(n)!Next]_<<phase[n], closed[n]>>
  BY CycleStep
<1> QED BY <1>1, <1>2, PhasesStep, DaemonInvariance, PTL DEF Spec, CycleOf!Spec
=============================================================================
