---------------------------- MODULE NetNSProofs ----------------------------
(***************************************************************************)
(* Proofs about pkg/ns, for any number of threads, goroutines, nested      *)
(* calls, namespaces and failures.                                         *)
(***************************************************************************)
EXTENDS NetNS, TLAPS

(* The goroutine of a Do or NewNS has not ended.                           *)
Active(k) == pc[k] # "free"

(* Where goroutines are: a worker has a thread of its own from its         *)
(* Dispatch to its Exit, and what it is for decides the way it takes.      *)
PlacesOK ==
    /\ on[Main] = 0
    /\ \A h \in Handlers : on[h] = None
    /\ \A g \in Callers : pc[g] \in {"idle", "wait", "return"}
    /\ \A k \in Workers :
        /\ pc[k] # "idle"
        /\ on[k] = None <=> pc[k] \in {"free", "call", "start"}
        /\ Active(k) => target[k] \in Namespaces /\ task[k] \in {"do", "host", "new"}
        /\ pc[k] \in {"call", "set", "run", "wait", "return"} => task[k] # "new"
        /\ pc[k] \in {"unshare", "mount", "fd"} => task[k] = "new"

(* A goroutine waits for one worker at a time.                             *)
CallersOK ==
    /\ \A k \in Workers : Active(k) => caller[k] \in Goroutines /\ pc[caller[k]] = "wait"
    /\ \A j, k \in Workers : Active(j) /\ Active(k) /\ caller[j] = caller[k] => j = k

(* A worker is where it has gone, and can go back to where it was: home,   *)
(* unless it has got a thread that is astray.                              *)
EntersOK ==
    \A k \in Workers :
        /\ pc[k] \in {"run", "wait", "return"} => tns[on[k]] = target[k]
        /\ pc[k] \in {"set", "unshare"} \/ Away(k) =>
            saved[k] \in Namespaces /\ (saved[k] = Home \/ on[k] \in astray)

(* Where threads are.                                                      *)
HomeOK == ThreadsComeHome /\ tns[0] = Home

(* The thread that a caller of Do has noted is its own, if it has one.     *)
TidOK ==
    \A k \in Workers : pc[k] = "call" =>
        /\ tid[k] \in Threads /\ Exists(tid[k])
        /\ on[caller[k]] # None => tid[k] = on[caller[k]]

(* The namespace that a caller is in, or that it takes for its own.        *)
Calls(g, n) ==
    /\ n \in Namespaces
    /\ \/ g \in Workers /\ n = target[g]
       \/ g \notin Workers /\ n = Home
       \/ g \in Handlers /\ (astray # {} \/ g \in overtaken)

(* The namespace that a caller of Do has opened is the one it calls from.  *)
HostOK ==
    \A k \in Workers : Active(k) /\ pc[k] # "call" /\ task[k] # "new" => Calls(caller[k], host[caller[k]])

(* A namespace is being made as long as its caller waits or cleans up.     *)
MakingOK ==
    /\ \A g \in Goroutines : making[g] # None => pc[g] \in {"wait", "return"}
    /\ \A k \in Workers : Active(k) /\ task[k] = "new" => making[caller[k]] = target[k]

(* The inductive invariant.                                                *)
NInv ==
    TypeOK /\ PlacesOK /\ CallersOK /\ EntersOK /\ HomeOK /\ TidOK /\ HostOK /\ MakingOK /\ MountsOwned

-----------------------------------------------------------------------------

(* How a call of Do or NewNS begins.                                       *)
Start(t) == IF t = "new" THEN "start" ELSE "call"

(* What the start of a call has to do with where goroutines and threads    *)
(* are: the caller was not waiting, so that no other worker has it, or the *)
(* new worker, for its caller.                                             *)
LEMMA GoPreserves ==
  ASSUME NInv, NEW g \in Goroutines, NEW k \in Workers, pc[g] \in {"idle", "run"},
         NEW t \in {"do", "host", "new"}, NEW n \in Namespaces, Go(g, k, Start(t), t, n)
  PROVE  /\ PlacesOK' /\ CallersOK' /\ EntersOK' /\ HomeOK' /\ HostOK'
         /\ g # k /\ \A j \in Workers \ {k} : Active(j)' => Active(j) /\ caller[j] # g
         /\ making[g] = None
<1> USE NetNSAssumption
<1> USE DEF NInv, TypeOK, PlacesOK, CallersOK, Active, Goroutines, Callers, Go, Start, history
<1>1. g # k /\ \A j \in Workers \ {k} : Active(j)' => Active(j) /\ caller[j] # g
  OBVIOUS
<1>2. making[g] = None
  BY DEF MakingOK
<1>3. PlacesOK'
  OBVIOUS
<1>4. CallersOK'
  OBVIOUS
<1>5. EntersOK'
  BY DEF EntersOK, Away
<1>6. HomeOK'
  <2>1. \A j \in Workers : Away(j) => Away(j)'
    BY DEF Away
  <2> QED BY <2>1 DEF HomeOK, ThreadsComeHome, Exists
<1>7. HostOK'
  <2>1. ASSUME NEW j \in Workers, Active(j)', pc'[j] # "call", task'[j] # "new"
        PROVE  /\ Active(j) /\ pc[j] # "call" /\ task[j] # "new" /\ caller'[j] = caller[j]
               /\ caller[j] \in Workers => target'[caller[j]] = target[caller[j]]
    BY <1>1, <2>1
  <2>2. UNCHANGED <<host, astray, overtaken>>
    OBVIOUS
  <2> QED BY <2>1, <2>2 DEF HostOK, Calls
<1> QED BY <1>1, <1>2, <1>3, <1>4, <1>5, <1>6, <1>7

(* What is being made when a worker starts.                                *)
LEMMA StartsMaking ==
  ASSUME NInv, NEW g \in Goroutines, NEW k \in Workers, pc[g] \in {"idle", "run"},
         NEW t \in {"do", "host", "new"}, NEW n \in Namespaces, Go(g, k, Start(t), t, n),
         making' = IF t = "new" THEN [making EXCEPT ![g] = n] ELSE making
  PROVE  MakingOK'
<1>1. g # k /\ \A j \in Workers \ {k} : Active(j)' => Active(j) /\ caller[j] # g
  BY GoPreserves
<1>2. making[g] = None
  BY GoPreserves
<1>3. /\ \A j \in Workers \ {k} : caller'[j] = caller[j] /\ task'[j] = task[j] /\ target'[j] = target[j]
      /\ caller'[k] = g /\ task'[k] = t /\ target'[k] = n
      /\ \A x \in Goroutines : x \notin {g, k} => pc'[x] = pc[x]
      /\ pc'[g] = "wait"
      /\ \A x \in Goroutines \ {g} : making'[x] = making[x]
      /\ making'[g] = IF t = "new" THEN n ELSE None
  BY <1>1, <1>2 DEF Go, NInv, TypeOK, Goroutines
<1>4. making[k] = None
  BY DEF NInv, MakingOK, Go, Goroutines
<1>5. \A x \in Goroutines : making'[x] # None => pc'[x] \in {"wait", "return"}
  BY <1>1, <1>3, <1>4 DEF NInv, MakingOK
<1>6. ASSUME NEW j \in Workers, Active(j)', task'[j] = "new" PROVE making'[caller'[j]] = target'[j]
  <2>1. CASE j = k
    BY <1>3, <1>6, <2>1
  <2>2. CASE j # k
    BY <1>1, <1>3, <1>6, <2>2 DEF NInv, MakingOK, CallersOK
  <2> QED BY <2>1, <2>2
<1> QED BY <1>5, <1>6 DEF MakingOK

(* Do: the caller notes the thread it runs on.                             *)
LEMMA DoPreserves ==
  ASSUME NInv, NEW g \in Goroutines, NEW k \in Workers, pc[g] \in {"idle", "run"},
         NEW t \in {"do", "host"}, NEW n \in Namespaces, Go(g, k, "call", t, n), UNCHANGED <<making, mnt>>,
         Gettid(g, k)
  PROVE  NInv'
<1> USE NetNSAssumption
<1>0. Go(g, k, Start(t), t, n)
  BY DEF Start
<1>1. PICK u \in Threads : RunsOn(g, u) /\ tid' = [tid EXCEPT ![k] = u]
  BY DEF Gettid
<1>2. tns[u] # None /\ (on[g] # None => u = on[g])
  BY <1>1 DEF NInv, TypeOK, RunsOn, Free, Exists
<1>3. TypeOK'
  BY <1>1 DEF NInv, TypeOK, Go, PCs, Goroutines, Namespaces, Exists, history
<1>4. TidOK'
  <2>1. g # k /\ \A j \in Workers \ {k} : Active(j)' => Active(j) /\ caller[j] # g
    BY <1>0, GoPreserves
  <2>2. /\ \A j \in Workers \ {k} : caller'[j] = caller[j] /\ tid'[j] = tid[j] /\ (pc'[j] = "call" => pc[j] = "call")
        /\ caller'[k] = g /\ tid'[k] = u /\ UNCHANGED <<on, tns>>
    BY <1>1, <2>1 DEF Go, NInv, TypeOK, Active, Goroutines
  <2>3. ASSUME NEW j \in Workers, pc'[j] = "call"
        PROVE  /\ tid'[j] \in Threads /\ tns'[tid'[j]] # None
               /\ on'[caller'[j]] # None => tid'[j] = on'[caller'[j]]
    <3>1. CASE j = k
      BY <1>2, <2>2, <3>1 DEF Exists
    <3>2. CASE j # k
      BY <2>2, <2>3, <3>2 DEF NInv, TidOK, Exists
    <3> QED BY <3>1, <3>2
  <2> QED BY <2>3 DEF TidOK, Exists
<1>5. MakingOK'
  BY <1>0, StartsMaking
<1>6. MountsOwned'
  BY DEF NInv, MountsOwned, Go
<1> QED BY <1>0, <1>3, <1>4, <1>5, <1>6, GoPreserves DEF NInv

(* Do of a namespace, Do of hostNS, and NewNS.                             *)
LEMMA CallPreserves ==
  ASSUME NInv, NEW g \in Goroutines, NEW k \in Workers,
         \/ DoHost(g, k)
         \/ \E n \in Namespaces : Do(g, k, n)
         \/ \E n \in Fresh : NewNS(g, k, n)
  PROVE  NInv'
<1> USE NetNSAssumption
<1>1. CASE DoHost(g, k)
  <2>1. g \in Workers /\ Active(g) /\ pc[g] = "run" /\ task[g] # "new"
    BY <1>1 DEF DoHost, NInv, PlacesOK, Active, Goroutines
  <2>2. host[caller[g]] \in Namespaces
    BY <2>1 DEF NInv, HostOK, Calls
  <2> QED BY <1>1, <2>2, DoPreserves DEF DoHost
<1>2. ASSUME NEW n \in Namespaces, Do(g, k, n) PROVE NInv'
  BY <1>2, DoPreserves DEF Do
<1>3. ASSUME NEW n \in Fresh, NewNS(g, k, n) PROVE NInv'
  <2>1. pc[g] \in {"idle", "run"} /\ Go(g, k, Start("new"), "new", n) /\ n \in Namespaces /\ n # None
    BY <1>3 DEF NewNS, Namespaces, Start
  <2>2. TypeOK'
    <3>1. pc' \in [Goroutines -> PCs] /\ caller' \in [Workers -> Goroutines \cup {None}]
      BY <2>1 DEF NInv, TypeOK, Go, PCs, Goroutines, Start
    <3>2. task' \in [Workers -> {"do", "host", "new", None}] /\ target' \in [Workers -> Namespaces \cup {None}]
      BY <2>1 DEF NInv, TypeOK, Go
    <3>3. making' \in [Goroutines -> Fresh \cup {None}] /\ mnt' \in [Fresh -> {"none", "file", "mounted"}]
      BY <1>3 DEF NInv, TypeOK, NewNS
    <3>4. UNCHANGED <<tns, on, host, tid, saved, failed, obj, astray, overtaken, lost, faults>>
      BY <1>3 DEF NewNS, Go, history
    <3> QED BY <3>1, <3>2, <3>3, <3>4 DEF NInv, TypeOK, Exists
  <2>3. TidOK'
    <3>1. g # k /\ \A j \in Workers \ {k} : Active(j)' => Active(j) /\ caller[j] # g
      BY <2>1, GoPreserves
    <3>2. /\ \A j \in Workers \ {k} : caller'[j] = caller[j] /\ (Active(j)' => pc'[j] = pc[j] \/ pc'[j] = "wait")
          /\ pc'[k] = "start" /\ UNCHANGED <<tid, on, tns>>
      BY <1>3, <2>1, <3>1 DEF NewNS, Go, NInv, TypeOK, Active, Goroutines, Start
    <3>3. ASSUME NEW j \in Workers, pc'[j] = "call" PROVE j # k /\ pc[j] = "call" /\ caller'[j] = caller[j]
      BY <3>2, <3>3 DEF Active
    <3> QED BY <3>2, <3>3 DEF NInv, TidOK, Exists
  <2>4. MakingOK'
    BY <1>3, <2>1, StartsMaking DEF NewNS
  <2>5. MountsOwned'
    <3>1. making[g] = None
      BY <2>1, GoPreserves
    <3>2. /\ making' = [making EXCEPT ![g] = n] /\ mnt' = [mnt EXCEPT ![n] = "file"]
          /\ UNCHANGED <<obj, lost>>
      BY <1>3, <2>1 DEF NewNS, Go
    <3>3. making'[g] = n /\ \A x \in Goroutines \ {g} : making'[x] = making[x]
      BY <3>2 DEF NInv, TypeOK
    <3>4. \A m \in Fresh \ {n} : mnt'[m] = mnt[m]
      BY <3>2 DEF NInv, TypeOK
    <3>5. ASSUME NEW m \in Fresh, m # n, mnt[m] # "none"
          PROVE  obj[m] = "open" \/ m \in lost \/ \E x \in Goroutines : making'[x] = m
      <4>1. m # None
        BY DEF Namespaces
      <4> QED BY <3>1, <3>3, <3>5, <4>1 DEF NInv, MountsOwned
    <3> QED BY <3>2, <3>3, <3>4, <3>5 DEF MountsOwned
  <2> QED BY <2>1, <2>2, <2>3, <2>4, <2>5, GoPreserves DEF NInv
<1> QED BY <1>1, <1>2, <1>3

(* The caller opens the namespace of the thread that it has noted: its own *)
(* if it is locked, and otherwise that of a thread which is free or which  *)
(* another goroutine has by now.                                           *)
LEMMA OpenHostPreserves ==
  ASSUME NInv, NEW k \in Workers, OpenHost(k)
  PROVE  NInv'
<1> USE NetNSAssumption
<1>a. pc[k] = "call" /\ Active(k)
  BY DEF OpenHost, Goto, Active
<1>b. PICK g \in Goroutines, u \in Threads : g = caller[k] /\ u = tid[k]
  BY <1>a DEF NInv, CallersOK, TidOK
<1>1. /\ pc[k] = "call" /\ g = caller[k] /\ u = tid[k] /\ pc[g] = "wait" /\ task[k] # "new"
      /\ tns[u] \in Namespaces /\ on[k] = None /\ (on[g] # None => u = on[g])
  <2>1. pc[g] = "wait" /\ task[k] # "new" /\ on[k] = None
    BY <1>a, <1>b DEF NInv, CallersOK, PlacesOK
  <2>2. tns[u] \in Namespaces /\ (on[g] # None => u = on[g])
    BY <1>a, <1>b DEF NInv, TypeOK, TidOK, Exists
  <2> QED BY <1>a, <1>b, <2>1, <2>2
<1>2. /\ pc' = [pc EXCEPT ![k] = "start"] /\ host' = [host EXCEPT ![g] = tns[u]]
      /\ tid' = [tid EXCEPT ![k] = None] /\ overtaken' \in {overtaken, overtaken \cup {g}}
      /\ RunsOn(g, u) \/ g \in overtaken'
      /\ UNCHANGED <<tns, on, caller, task, target, saved, failed, making, mnt, obj, lost, astray, faults>>
  BY <1>1 DEF OpenHost, Goto, mounts
<1>3. /\ tns[u] \in Namespaces
      /\ \/ g \in Workers /\ tns[u] = target[g]
         \/ g \notin Workers /\ tns[u] = Home
         \/ g \in Handlers /\ (astray # {} \/ g \in overtaken')
  <2>1. CASE g \in Workers
    <3>1. on[g] # None /\ u = on[g] /\ tns[on[g]] = target[g]
      BY <1>1, <2>1 DEF NInv, PlacesOK, EntersOK
    <3> QED BY <1>1, <1>2, <2>1, <3>1
  <2>2. CASE g = Main
    <3>1. u = 0 /\ tns[0] = Home /\ Main \notin Workers
      BY <1>1, <2>2 DEF NInv, PlacesOK, HomeOK, Callers
    <3> QED BY <1>1, <1>2, <2>2, <3>1
  <2>3. CASE g \in Handlers
    <3>1. g \notin Workers
      BY <2>3 DEF Callers
    <3>2. CASE g \in overtaken'
      BY <1>1, <1>2, <2>3, <3>2
    <3>3. CASE RunsOn(g, u)
      <4>1. \A x \in Goroutines : on[x] # u
        BY <2>3, <3>3 DEF NInv, PlacesOK, RunsOn, Free
      <4>2. tns[u] = Home \/ u \in astray
        BY <1>1, <4>1 DEF NInv, HomeOK, ThreadsComeHome, Exists, Goroutines, Namespaces
      <4> QED BY <1>1, <1>2, <2>3, <3>1, <4>2
    <3> QED BY <1>2, <3>2, <3>3
  <2> QED BY <1>1, <2>1, <2>2, <2>3 DEF Goroutines, Callers
<1>4. TypeOK'
  <2>1. pc' \in [Goroutines -> PCs] /\ host' \in [Goroutines -> Namespaces \cup {None}]
        /\ tid' \in [Workers -> Threads \cup {None}] /\ overtaken' \subseteq Goroutines
    BY <1>1, <1>2 DEF NInv, TypeOK, PCs, Goroutines
  <2> QED BY <1>2, <2>1 DEF NInv, TypeOK, Exists
<1>5. /\ pc'[k] = "start" /\ \A x \in Goroutines \ {k} : pc'[x] = pc[x]
      /\ host'[g] = tns[u] /\ \A x \in Goroutines \ {g} : host'[x] = host[x]
      /\ \A j \in Workers \ {k} : tid'[j] = tid[j]
      /\ g # k
  BY <1>1, <1>2 DEF NInv, TypeOK, Goroutines
<1>6. PlacesOK' /\ CallersOK'
  <2>1. PlacesOK'
    BY <1>1, <1>2, <1>5 DEF NInv, PlacesOK, Active, Goroutines, Callers
  <2>2. \A j \in Workers : Active(j)' <=> Active(j)
    BY <1>1, <1>5 DEF Active, Goroutines
  <2>3. \A j \in Workers : Active(j) => caller[j] # k
    BY <1>1 DEF NInv, CallersOK
  <2>4. CallersOK'
    BY <1>2, <1>5, <2>2, <2>3 DEF NInv, CallersOK
  <2> QED BY <2>1, <2>4
<1>7. EntersOK' /\ HomeOK'
  <2>1. \A j \in Workers : Away(j)' <=> Away(j)
    BY <1>1, <1>5 DEF Away, Goroutines
  <2>2. EntersOK'
    BY <1>1, <1>2, <1>5, <2>1 DEF NInv, EntersOK, Goroutines
  <2>3. HomeOK'
    BY <1>2, <2>1 DEF NInv, HomeOK, ThreadsComeHome, Exists
  <2> QED BY <2>2, <2>3
<1>8. TidOK'
  BY <1>1, <1>2, <1>5 DEF NInv, TidOK, Exists, Goroutines
<1>9. HostOK'
  <2>1. ASSUME NEW j \in Workers, Active(j)', pc'[j] # "call", task'[j] # "new"
        PROVE  Calls(caller[j], host[caller[j]])'
    <3>0. caller'[j] = caller[j]
      BY <1>2
    <3>1. CASE j = k
      BY <1>1, <1>2, <1>3, <1>5, <3>1 DEF Calls
    <3>2. CASE j # k
      <4>1. Active(j) /\ pc[j] # "call" /\ task[j] # "new" /\ caller[j] \in Goroutines \ {g}
        BY <1>1, <1>2, <1>5, <2>1, <3>2 DEF NInv, CallersOK, Active, Goroutines
      <4>2. Calls(caller[j], host[caller[j]])
        BY <4>1 DEF NInv, HostOK
      <4> QED BY <1>2, <1>5, <3>0, <4>1, <4>2 DEF Calls
    <3> QED BY <3>1, <3>2
  <2> QED BY <2>1 DEF HostOK
<1>10. MakingOK' /\ MountsOwned'
  BY <1>1, <1>2, <1>5 DEF NInv, MakingOK, MountsOwned, Active, Goroutines
<1> QED BY <1>4, <1>6, <1>7, <1>8, <1>9, <1>10 DEF NInv

(* A worker up to the function that it runs, or to the new namespace.      *)
LEMMA EnterPreserves ==
  ASSUME NInv, NEW k \in Workers,
         (\E t \in Threads : Dispatch(k, t)) \/ OpenThread(k) \/ Set(k) \/ OpenFault(k) \/ SetClosed(k)
  PROVE  NInv'
<1> USE NetNSAssumption
<1> USE DEF NInv, TypeOK, PlacesOK, CallersOK, EntersOK, HomeOK, ThreadsComeHome, Away, TidOK, HostOK, Calls, MakingOK,
            MountsOwned, Active, Goroutines, Callers, Namespaces, Exists, Free, RunsOn, Goto, PCs, goroutine, mounts, history
<1>1. ASSUME NEW t \in Threads, Dispatch(k, t) PROVE NInv'
  <2>1. TypeOK'
    BY <1>1 DEF Dispatch
  <2>2. PlacesOK' /\ CallersOK'
    BY <1>1 DEF Dispatch
  <2>3. EntersOK' /\ HomeOK'
    BY <1>1 DEF Dispatch
  <2>4. HostOK'
    BY <1>1 DEF Dispatch
  <2>5. TidOK' /\ MakingOK' /\ MountsOwned'
    BY <1>1 DEF Dispatch
  <2> QED BY <2>1, <2>2, <2>3, <2>4, <2>5
<1>2. CASE OpenThread(k)
  <2>1. TypeOK'
    BY <1>2 DEF OpenThread
  <2>2. PlacesOK' /\ CallersOK'
    BY <1>2 DEF OpenThread
  <2>3. EntersOK' /\ HomeOK'
    BY <1>2 DEF OpenThread
  <2>4. HostOK'
    BY <1>2 DEF OpenThread
  <2>5. TidOK' /\ MakingOK' /\ MountsOwned'
    BY <1>2 DEF OpenThread
  <2> QED BY <2>1, <2>2, <2>3, <2>4, <2>5
<1>3. CASE Set(k)
  <2>1. TypeOK'
    BY <1>3 DEF Set
  <2>2. PlacesOK' /\ CallersOK'
    BY <1>3 DEF Set
  <2>3. EntersOK' /\ HomeOK'
    <3>1. EntersOK'
      BY <1>3 DEF Set
    <3>2. HomeOK'
      BY <1>3 DEF Set
    <3> QED BY <3>1, <3>2
  <2>4. HostOK'
    BY <1>3 DEF Set
  <2>5. TidOK' /\ MakingOK' /\ MountsOwned'
    BY <1>3 DEF Set
  <2> QED BY <2>1, <2>2, <2>3, <2>4, <2>5
<1>4. CASE OpenFault(k)
  <2>1. TypeOK'
    BY <1>4 DEF OpenFault, Abort, Fault
  <2>2. PlacesOK' /\ CallersOK'
    BY <1>4 DEF OpenFault, Abort, Fault
  <2>3. EntersOK' /\ HomeOK'
    BY <1>4 DEF OpenFault, Abort, Fault
  <2>4. HostOK'
    BY <1>4 DEF OpenFault, Abort, Fault
  <2>5. TidOK' /\ MakingOK' /\ MountsOwned'
    BY <1>4 DEF OpenFault, Abort, Fault
  <2> QED BY <2>1, <2>2, <2>3, <2>4, <2>5
<1>5. CASE SetClosed(k)
  <2>1. TypeOK'
    BY <1>5 DEF SetClosed, Abort
  <2>2. PlacesOK' /\ CallersOK'
    BY <1>5 DEF SetClosed, Abort
  <2>3. EntersOK' /\ HomeOK'
    BY <1>5 DEF SetClosed, Abort
  <2>4. HostOK'
    BY <1>5 DEF SetClosed, Abort
  <2>5. TidOK' /\ MakingOK' /\ MountsOwned'
    BY <1>5 DEF SetClosed, Abort
  <2> QED BY <2>1, <2>2, <2>3, <2>4, <2>5
<1> QED BY <1>1, <1>2, <1>3, <1>4, <1>5

(* A worker from then on.                                                  *)
LEMMA LeavePreserves ==
  ASSUME NInv, NEW k \in Workers,
         \/ Finish(k) \/ Mount(k) \/ OpenMount(k) \/ MountFault(k)
         \/ SetBack(k) \/ SetBackFault(k) \/ Exit(k) \/ HostFault(k)
  PROVE  NInv'
<1> USE NetNSAssumption
<1> USE DEF NInv, TypeOK, PlacesOK, CallersOK, EntersOK, HomeOK, ThreadsComeHome, Away, TidOK, HostOK, Calls, MakingOK,
            MountsOwned, Active, Goroutines, Callers, Namespaces, Exists, Free, RunsOn, Goto, PCs, goroutine, mounts, history
<1>1. CASE Finish(k)
  <2>1. TypeOK'
    BY <1>1 DEF Finish
  <2>2. PlacesOK' /\ CallersOK'
    BY <1>1 DEF Finish
  <2>3. EntersOK' /\ HomeOK'
    BY <1>1 DEF Finish
  <2>4. HostOK'
    BY <1>1 DEF Finish
  <2>5. TidOK' /\ MakingOK' /\ MountsOwned'
    BY <1>1 DEF Finish
  <2> QED BY <2>1, <2>2, <2>3, <2>4, <2>5
<1>2. CASE Mount(k)
  <2>1. TypeOK'
    BY <1>2 DEF Mount
  <2>2. PlacesOK' /\ CallersOK'
    BY <1>2 DEF Mount
  <2>3. EntersOK' /\ HomeOK'
    BY <1>2 DEF Mount
  <2>4. HostOK'
    BY <1>2 DEF Mount
  <2>5. TidOK' /\ MakingOK' /\ MountsOwned'
    BY <1>2 DEF Mount
  <2> QED BY <2>1, <2>2, <2>3, <2>4, <2>5
<1>3. CASE OpenMount(k)
  <2>1. TypeOK'
    BY <1>3 DEF OpenMount
  <2>2. PlacesOK' /\ CallersOK'
    BY <1>3 DEF OpenMount
  <2>3. EntersOK' /\ HomeOK'
    BY <1>3 DEF OpenMount
  <2>4. HostOK'
    BY <1>3 DEF OpenMount
  <2>5. TidOK' /\ MakingOK' /\ MountsOwned'
    BY <1>3 DEF OpenMount
  <2> QED BY <2>1, <2>2, <2>3, <2>4, <2>5
<1>4. CASE MountFault(k)
  <2>1. TypeOK'
    BY <1>4 DEF MountFault, Fault
  <2>2. PlacesOK' /\ CallersOK'
    <3>1. /\ pc[k] \in {"mount", "fd"} /\ pc' = [pc EXCEPT ![k] = "back"]
          /\ UNCHANGED <<on, caller, task, target>>
      BY <1>4 DEF MountFault
    <3>2. PlacesOK'
      BY <3>1
    <3>3. CallersOK'
      BY <3>1
    <3> QED BY <3>2, <3>3
  <2>3. EntersOK' /\ HomeOK'
    BY <1>4 DEF MountFault, Fault
  <2>4. HostOK'
    BY <1>4 DEF MountFault, Fault
  <2>5. TidOK' /\ MakingOK' /\ MountsOwned'
    BY <1>4 DEF MountFault, Fault
  <2> QED BY <2>1, <2>2, <2>3, <2>4, <2>5
<1>5. CASE SetBack(k)
  <2>1. TypeOK'
    BY <1>5 DEF SetBack
  <2>2. PlacesOK' /\ CallersOK'
    BY <1>5 DEF SetBack
  <2>3. EntersOK' /\ HomeOK'
    BY <1>5 DEF SetBack
  <2>4. HostOK'
    BY <1>5 DEF SetBack
  <2>5. TidOK' /\ MakingOK' /\ MountsOwned'
    BY <1>5 DEF SetBack
  <2> QED BY <2>1, <2>2, <2>3, <2>4, <2>5
<1>6. CASE SetBackFault(k)
  <2>1. TypeOK'
    <3>1. astray' \subseteq Threads
      BY <1>6 DEF SetBackFault
    <3>2. faults' \in 0 .. MaxFaults
      BY <1>6 DEF SetBackFault, Fault
    <3> QED BY <1>6, <3>1, <3>2 DEF SetBackFault
  <2>2. PlacesOK' /\ CallersOK'
    BY <1>6 DEF SetBackFault, Fault
  <2>3. EntersOK' /\ HomeOK'
    BY <1>6 DEF SetBackFault, Fault
  <2>4. HostOK'
    BY <1>6 DEF SetBackFault, Fault
  <2>5. TidOK' /\ MakingOK' /\ MountsOwned'
    BY <1>6 DEF SetBackFault, Fault
  <2> QED BY <2>1, <2>2, <2>3, <2>4, <2>5
<1>7. CASE Exit(k) \/ HostFault(k)
  <2>a. pc[k] \in {"exit", "call"} /\ End(k, "return") /\ faults' \in 0 .. MaxFaults
    BY <1>7 DEF Exit, HostFault, Fault
  <2>1. TypeOK'
    <3>1. /\ on' \in [Goroutines -> Threads \cup {None}] /\ pc' \in [Goroutines -> PCs]
          /\ caller' \in [Workers -> Goroutines \cup {None}]
          /\ task' \in [Workers -> {"do", "host", "new", None}]
      BY <2>a DEF End
    <3>2. /\ target' \in [Workers -> Namespaces \cup {None}]
          /\ tid' \in [Workers -> Threads \cup {None}]
      BY <2>a DEF End
    <3>3. /\ \A x \in Goroutines : on'[x] # None => on[x] = on'[x] /\ tns[on[x]] # None
          /\ \A x, y \in Goroutines : on'[x] = on'[y] /\ on'[x] # None => x = y
      BY <2>a DEF End
    <3> QED BY <2>a, <3>1, <3>2, <3>3 DEF End
  <2>0. /\ pc'[k] = "free" /\ on'[k] = None /\ pc[k] \in {"exit", "call"}
        /\ caller[k] \in Goroutines \ {k} /\ pc[caller[k]] = "wait" /\ pc'[caller[k]] = "return"
        /\ \A g \in Goroutines \ {k, caller[k]} : pc'[g] = pc[g]
        /\ \A g \in Goroutines \ {k} : on'[g] = on[g]
        /\ \A j \in Workers \ {k} : caller'[j] = caller[j] /\ task'[j] = task[j] /\ target'[j] = target[j]
        /\ UNCHANGED <<tns, saved, astray, overtaken>>
    BY <2>a DEF End
  <2>2. PlacesOK' /\ CallersOK'
    <3>1. PlacesOK'
      <4>1. on'[Main] = 0 /\ \A h \in Handlers : on'[h] = None
        BY <2>0
      <4>2. \A g \in Goroutines \ {k} : pc'[g] \in {pc[g], "return"} /\ (pc'[g] # pc[g] => pc[g] = "wait")
        BY <2>0
      <4>3. \A g \in Callers : pc'[g] \in {"idle", "wait", "return"}
        BY <4>2
      <4>4. \A j \in Workers \ {k} :
              /\ pc'[j] # "idle" /\ (on'[j] = None <=> pc'[j] \in {"free", "call", "start"})
              /\ Active(j)' => target'[j] \in Namespaces /\ task'[j] \in {"do", "host", "new"}
              /\ pc'[j] \in {"call", "set", "run", "wait", "return"} => task'[j] # "new"
              /\ pc'[j] \in {"unshare", "mount", "fd"} => task'[j] = "new"
        BY <2>0, <4>2
      <4> QED BY <2>0, <4>1, <4>3, <4>4
    <3>2. \A j \in Workers \ {k} : Active(j) =>
              caller[j] \in Goroutines \ {k, caller[k]} /\ pc[caller[j]] = "wait"
      BY <2>0
    <3>3. \A j \in Workers : Active(j)' => j # k /\ Active(j)
      BY <2>0
    <3>4. CallersOK
      OBVIOUS
    <3>5. CallersOK'
      <4> HIDE DEF NInv, TypeOK, PlacesOK, EntersOK, HomeOK, TidOK, HostOK, Calls, MakingOK, MountsOwned, Active
      <4> QED BY <2>0, <3>2, <3>3, <3>4
    <3> QED BY <3>1, <3>5
  <2>3. EntersOK' /\ HomeOK'
    <3>1. EntersOK'
      BY <2>0
    <3>2. \A j \in Workers : Away(j)' <=> Away(j)
      BY <2>0
    <3>3. HomeOK'
      BY <2>0, <3>2
    <3> QED BY <3>1, <3>3
  <2>4. HostOK'
    BY <2>a DEF End
  <2>5. TidOK' /\ MakingOK' /\ MountsOwned'
    BY <2>a DEF End
  <2> QED BY <2>1, <2>2, <2>3, <2>4, <2>5
<1> QED BY <1>1, <1>2, <1>3, <1>4, <1>5, <1>6, <1>7

(* The caller goes on.                                                     *)
LEMMA ReturnPreserves ==
  ASSUME NInv, NEW g \in Goroutines, Return(g)
  PROVE  NInv'
<1> USE NetNSAssumption
<1> USE DEF NInv, TypeOK, PlacesOK, CallersOK, EntersOK, HomeOK, ThreadsComeHome, Away, TidOK, HostOK, Calls, MakingOK,
            MountsOwned, Active, Goroutines, Callers, Namespaces, Exists, Free, RunsOn, Goto, PCs, goroutine, mounts, history
<1>1. CASE DoReturn(g)
  <2>1. TypeOK'
    BY <1>1 DEF DoReturn, Resume
  <2>2. PlacesOK' /\ CallersOK'
    BY <1>1 DEF DoReturn, Resume
  <2>3. EntersOK' /\ HomeOK'
    BY <1>1 DEF DoReturn, Resume
  <2>4. HostOK'
    <3>1. /\ pc[g] = "return" /\ pc'[g] \notin {"free", "call"} /\ \A x \in Goroutines \ {g} : pc'[x] = pc[x] /\ host'[x] = host[x]
          /\ overtaken' = overtaken \ {g} /\ UNCHANGED <<caller, task, target, astray>>
      BY <1>1 DEF DoReturn, Resume
    <3>2. ASSUME NEW j \in Workers, Active(j)', pc'[j] # "call", task'[j] # "new"
          PROVE  Active(j) /\ pc[j] # "call" /\ task[j] # "new" /\ caller[j] \in Goroutines \ {g}
      BY <3>1, <3>2
    <3> HIDE DEF NInv, TypeOK, PlacesOK, CallersOK, EntersOK, HomeOK, TidOK, MakingOK, MountsOwned
    <3> QED BY <3>1, <3>2 DEF NInv
  <2>5. TidOK' /\ MakingOK' /\ MountsOwned'
    <3>1. TidOK'
      BY <1>1 DEF DoReturn, Resume
    <3>2. MakingOK'
      BY <1>1 DEF DoReturn, Resume
    <3>3. MountsOwned'
      BY <1>1 DEF DoReturn, Resume
    <3> QED BY <3>1, <3>2, <3>3
  <2> QED BY <2>1, <2>2, <2>3, <2>4, <2>5
<1>2. CASE NewNSReturn(g)
  <2>1. TypeOK'
    BY <1>2 DEF NewNSReturn, Resume
  <2>2. PlacesOK' /\ CallersOK'
    BY <1>2 DEF NewNSReturn, Resume
  <2>3. EntersOK' /\ HomeOK'
    BY <1>2 DEF NewNSReturn, Resume
  <2>4. HostOK'
    BY <1>2 DEF NewNSReturn, Resume
  <2>5. TidOK' /\ MakingOK' /\ MountsOwned'
    BY <1>2 DEF NewNSReturn, Resume
  <2> QED BY <2>1, <2>2, <2>3, <2>4, <2>5
<1>3. CASE NewNSCleanup(g)
  <2>1. TypeOK'
    BY <1>3 DEF NewNSCleanup, Resume
  <2>2. PlacesOK' /\ CallersOK'
    BY <1>3 DEF NewNSCleanup, Resume
  <2>3. EntersOK' /\ HomeOK'
    BY <1>3 DEF NewNSCleanup, Resume
  <2>4. HostOK'
    BY <1>3 DEF NewNSCleanup, Resume
  <2>5. TidOK' /\ MakingOK' /\ MountsOwned'
    BY <1>3 DEF NewNSCleanup, Resume
  <2> QED BY <2>1, <2>2, <2>3, <2>4, <2>5
<1>4. CASE NewNSCleanupFault(g)
  <2>1. TypeOK'
    BY <1>4 DEF NewNSCleanupFault, Resume
  <2>2. PlacesOK' /\ CallersOK'
    BY <1>4 DEF NewNSCleanupFault, Resume
  <2>3. EntersOK' /\ HomeOK'
    BY <1>4 DEF NewNSCleanupFault, Resume
  <2>4. HostOK'
    BY <1>4 DEF NewNSCleanupFault, Resume
  <2>5. TidOK' /\ MakingOK' /\ MountsOwned'
    BY <1>4 DEF NewNSCleanupFault, Resume
  <2> QED BY <2>1, <2>2, <2>3, <2>4, <2>5
<1> QED BY <1>1, <1>2, <1>3, <1>4 DEF Return

(* New threads, and Close.                                                 *)
LEMMA OthersPreserve ==
  ASSUME NInv, \/ \E t, u \in Threads : Clone(t, u)
         \/ \E n \in Fresh : Close(n) \/ CloseFault(n)
  PROVE  NInv'
<1> USE NetNSAssumption
<1> USE DEF NInv, TypeOK, PlacesOK, CallersOK, EntersOK, HomeOK, ThreadsComeHome, Away, TidOK, HostOK, Calls, MakingOK,
            MountsOwned, Active, Goroutines, Callers, Namespaces, Exists, Free, RunsOn, Goto, PCs, goroutine, mounts, history
<1>1. ASSUME NEW t \in Threads, NEW u \in Threads, Clone(t, u) PROVE NInv'
  <2>1. TypeOK'
    BY <1>1 DEF Clone
  <2>2. PlacesOK' /\ CallersOK'
    BY <1>1 DEF Clone
  <2>3. EntersOK' /\ HomeOK'
    BY <1>1 DEF Clone
  <2>4. HostOK'
    BY <1>1 DEF Clone
  <2>5. TidOK' /\ MakingOK' /\ MountsOwned'
    BY <1>1 DEF Clone
  <2> QED BY <2>1, <2>2, <2>3, <2>4, <2>5
<1>2. ASSUME NEW n \in Fresh, Close(n) PROVE NInv'
  <2>1. TypeOK'
    BY <1>2 DEF Close
  <2>2. PlacesOK' /\ CallersOK'
    BY <1>2 DEF Close
  <2>3. EntersOK' /\ HomeOK'
    BY <1>2 DEF Close
  <2>4. HostOK'
    BY <1>2 DEF Close
  <2>5. TidOK' /\ MakingOK' /\ MountsOwned'
    BY <1>2 DEF Close
  <2> QED BY <2>1, <2>2, <2>3, <2>4, <2>5
<1>3. ASSUME NEW n \in Fresh, CloseFault(n) PROVE NInv'
  <2>1. TypeOK'
    BY <1>3 DEF CloseFault, Fault
  <2>2. PlacesOK' /\ CallersOK'
    BY <1>3 DEF CloseFault, Fault
  <2>3. EntersOK' /\ HomeOK'
    BY <1>3 DEF CloseFault, Fault
  <2>4. HostOK'
    BY <1>3 DEF CloseFault, Fault
  <2>5. TidOK' /\ MakingOK' /\ MountsOwned'
    BY <1>3 DEF CloseFault, Fault
  <2> QED BY <2>1, <2>2, <2>3, <2>4, <2>5
<1> QED BY <1>1, <1>2, <1>3

(* Whatever goroutines do, fail to do and are scheduled on, the inductive  *)
(* invariant of pkg/ns holds.                                              *)
THEOREM Invariance == Spec => []NInv
<1>1. Init => NInv
  <2> SUFFICES ASSUME Init PROVE NInv
    OBVIOUS
  <2> USE NetNSAssumption DEF Init
  <2>1. failed \in [Goroutines -> BOOLEAN]
    BY Zenon
  <2>2. TypeOK
    <3>1. /\ tns \in [Threads -> Namespaces \cup {None}] /\ on \in [Goroutines -> Threads \cup {None}]
          /\ host \in [Goroutines -> Namespaces \cup {None}] /\ pc \in [Goroutines -> PCs]
          /\ making \in [Goroutines -> Fresh \cup {None}]
      BY DEF Namespaces, PCs
    <3>2. /\ \A x \in Goroutines : on[x] # None => Exists(on[x])
          /\ \A x, y \in Goroutines : on[x] = on[y] /\ on[x] # None => x = y
      BY DEF Exists, Namespaces
    <3> QED BY <2>1, <3>1, <3>2 DEF TypeOK
  <2>3. PlacesOK /\ CallersOK /\ EntersOK /\ TidOK /\ HostOK /\ MakingOK /\ MountsOwned
    BY DEF PlacesOK, CallersOK, EntersOK, Away, TidOK, HostOK, MakingOK, MountsOwned, Active, Goroutines, Callers
  <2>4. HomeOK
    BY DEF HomeOK, ThreadsComeHome, Exists
  <2> QED BY <2>2, <2>3, <2>4 DEF NInv
<1>2. NInv /\ [Next]_vars => NInv'
  <2> SUFFICES ASSUME NInv, [Next]_vars PROVE NInv'
    OBVIOUS
  <2>1. CASE UNCHANGED vars
    BY <2>1 DEF vars, goroutine, mounts, history, NInv, TypeOK, PlacesOK, CallersOK, EntersOK, HomeOK, ThreadsComeHome,
                TidOK, HostOK, Calls, MakingOK, MountsOwned, Active, Away, Exists
  <2>2. CASE Next
    BY <2>2, CallPreserves, OpenHostPreserves, EnterPreserves, LeavePreserves, ReturnPreserves, OthersPreserve DEF Next, Work
  <2> QED BY <2>1, <2>2
<1> QED BY <1>1, <1>2, PTL DEF Spec

(* Type correctness of pkg/ns; no two goroutines are locked to one thread. *)
THEOREM TypeCorrect == Spec => []TypeOK
<1>1. NInv => TypeOK
  BY DEF NInv
<1> QED BY <1>1, Invariance, PTL

(* Do "executes the passed closure in this object's network namespace",    *)
(* and never moves the main goroutine.                                     *)
THEOREM FunctionsRunInTarget == Spec => []RunsInTarget
<1>1. NInv => RunsInTarget
  BY NetNSAssumption DEF NInv, TypeOK, PlacesOK, EntersOK, HomeOK, RunsInTarget, InFunction, RunsOn
<1> QED BY <1>1, Invariance, PTL

(* No thread stays behind in a namespace that Do or NewNS has sent it to,  *)
(* but those whose way back failed and those born from a thread abroad.    *)
THEOREM ThreadsReturn == Spec => []ThreadsComeHome
<1>1. NInv => ThreadsComeHome
  BY DEF NInv, HomeOK
<1> QED BY <1>1, Invariance, PTL

(* The function that Do runs is given the namespace of its caller, and, if *)
(* the caller is not locked to a thread, that of the program, unless       *)
(* threads are astray or the caller's was taken before it was opened.      *)
THEOREM HostIsOriginal == Spec => []HostIsCallers
<1>1. NInv => HostIsCallers
  BY DEF NInv, HostOK, Calls, HostIsCallers, InFunction, Active
<1> QED BY <1>1, Invariance, PTL

(* NewNS and Close leave no mount point behind that nobody can remove, but *)
(* those they failed to remove.                                            *)
THEOREM MountsHaveOwners == Spec => []MountsOwned
<1>1. NInv => MountsOwned
  BY DEF NInv
<1> QED BY <1>1, Invariance, PTL
=============================================================================
