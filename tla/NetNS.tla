------------------------------- MODULE NetNS -------------------------------
(***************************************************************************)
(* pkg/ns: network namespaces and the OS threads of a Go program.  A       *)
(* namespace belongs to a thread, while a goroutine runs on any thread     *)
(* unless it has called LockOSThread.  Do runs a function in a namespace   *)
(* on a goroutine and a thread of its own, and sends the thread back;      *)
(* NewNS makes a namespace in the same way and mounts it on a path.        *)
(*                                                                         *)
(* Callers are the main goroutine, which the plugins lock to the main      *)
(* thread in init, and the handlers of the DHCP daemon, which are not      *)
(* locked.  The functions that Do runs may call Do themselves, with the    *)
(* host namespace that they are given or with another.                     *)
(*                                                                         *)
(* The scheduler is that of Go 1.5 and 1.6: a thread whose locked          *)
(* goroutine has ended serves other goroutines, and a new thread is cloned *)
(* from one that runs and is born in its namespace.                        *)
(***************************************************************************)
EXTENDS Naturals

CONSTANTS
    Threads,     \* OS threads, 0 being the main thread
    Main,        \* the main goroutine
    Handlers,    \* goroutines that call Do without being locked to a thread
    Workers,     \* slots for the goroutines that Do and NewNS start
    Given,       \* namespaces that exist, with a path
    Fresh,       \* namespaces that NewNS may make
    Home,        \* the namespace the program is started in
    MaxFaults,   \* bound on the calls that fail, but for the clean-up of NewNS
    None

VARIABLES
    tns,      \* the namespace of each thread, or None: there is no such thread
    on,       \* the thread a goroutine is locked to
    pc,
    caller,   \* the goroutine that waits for a worker
    task,     \* what a worker is for: Do of an object, Do of hostNS, NewNS
    target,   \* the namespace it is to enter, or to make
    tid,      \* the thread whose namespace the caller of a worker is about to open
    host,     \* the caller's hostNS, a handle on the namespace it calls from
    saved,    \* the worker's threadNS or origNS
    failed,   \* the error that the worker has left for its caller
    making,   \* the namespace a caller makes with NewNS
    mnt,      \* the mount point of each fresh namespace
    obj,      \* the netNS that NewNS has returned for it; without one, "closed"
    astray,   \* history: threads whose way back failed, or born abroad
    overtaken,    \* history: callers in a Do that opened the namespace of a thread
                  \* that was another goroutine's by then
    lost,     \* history: namespaces whose mount point could not be removed
    faults

goroutine == <<caller, task, target, tid, saved, failed, making>>
mounts == <<mnt, obj, lost>>
history == <<astray, overtaken>>
vars == <<tns, on, pc, host, goroutine, mounts, history, faults>>

Callers == {Main} \cup Handlers
Goroutines == Callers \cup Workers
Namespaces == {Home} \cup Given \cup Fresh

ASSUME NetNSAssumption ==
    /\ Threads \subseteq Nat /\ 0 \in Threads
    /\ Main \notin Handlers /\ Callers \cap Workers = {} /\ Workers \subseteq Nat
    /\ Home \notin Given \cup Fresh /\ Given \cap Fresh = {}
    /\ None \notin Namespaces \cup Threads \cup Goroutines
    /\ MaxFaults \in Nat

Init ==
    /\ tns = [t \in Threads |-> IF t = 0 THEN Home ELSE None]
    /\ on = [g \in Goroutines |-> IF g = Main THEN 0 ELSE None]
    /\ pc = [g \in Goroutines |-> IF g \in Workers THEN "free" ELSE "idle"]
    /\ caller = [k \in Workers |-> None]
    /\ task = [k \in Workers |-> None]
    /\ target = [k \in Workers |-> None]
    /\ tid = [k \in Workers |-> None]
    /\ host = [g \in Goroutines |-> None]
    /\ saved = [k \in Workers |-> None]
    /\ failed = [g \in Goroutines |-> FALSE]
    /\ making = [g \in Goroutines |-> None]
    /\ mnt = [n \in Fresh |-> "none"]
    /\ obj = [n \in Fresh |-> "closed"]
    /\ astray = {} /\ overtaken = {} /\ lost = {} /\ faults = 0

-----------------------------------------------------------------------------
(* The Go scheduler.                                                       *)

Exists(t) == tns[t] # None

(* No goroutine is locked to this thread.                                  *)
Free(t) == Exists(t) /\ \A g \in Goroutines : on[g] # t

(* The threads that a goroutine's next step may be executed on.            *)
RunsOn(g, t) == IF on[g] # None THEN t = on[g] ELSE Free(t)

Fault == faults < MaxFaults /\ faults' = faults + 1

Goto(g, from, to) == pc[g] = from /\ pc' = [pc EXCEPT ![g] = to]

Clone(t, u) ==
    /\ Exists(t) /\ ~ Exists(u)
    /\ \A v \in Threads : v < u => Exists(v)
    /\ tns' = [tns EXCEPT ![u] = tns[t]]
    /\ astray' = IF tns[t] = Home THEN astray ELSE astray \cup {u}
    /\ UNCHANGED <<on, pc, host, goroutine, mounts, overtaken, faults>>

(* Mutant: the function is run on the thread of the caller.                *)
DispatchInPlace(k, t) ==
    /\ Goto(k, "start", "open")
    /\ RunsOn(caller[k], t)
    /\ on' = [on EXCEPT ![k] = t]
    /\ UNCHANGED <<tns, host, goroutine, mounts, history, faults>>

(* Mutant: the goroutine is not locked to its thread.                      *)
DispatchUnlocked(k, t) ==
    /\ Goto(k, "start", "open")
    /\ Free(t)
    /\ UNCHANGED <<tns, on, host, goroutine, mounts, history, faults>>

(* A worker gets a thread, and LockOSThread keeps it there.                *)
Dispatch(k, t) ==
    /\ Goto(k, "start", "open")
    /\ Free(t)
    /\ on' = [on EXCEPT ![k] = t]
    /\ UNCHANGED <<tns, host, goroutine, mounts, history, faults>>

-----------------------------------------------------------------------------
(* Do and NewNS, up to the start of their goroutine.                       *)

(* The caller begins a call, and waits for its worker once that has        *)
(* started.                                                                *)
Go(g, k, start, t, n) ==
    /\ pc[k] = "free" /\ \A j \in Workers : pc[j] = "free" => k <= j
    /\ pc' = [pc EXCEPT ![g] = "wait", ![k] = start]
    /\ caller' = [caller EXCEPT ![k] = g]
    /\ task' = [task EXCEPT ![k] = t]
    /\ target' = [target EXCEPT ![k] = n]
    /\ UNCHANGED <<tns, on, host, saved, failed, obj, history, lost, faults>>

(* getCurrentThreadNetNSPath names the thread that the caller runs on.     *)
Gettid(g, k) == \E t \in Threads : RunsOn(g, t) /\ tid' = [tid EXCEPT ![k] = t]

(* Do of a namespace that was opened by its path (WithNetNSPath) or that   *)
(* NewNS has made.  If the path cannot be opened, or the object is closed, *)
(* it returns with nothing changed.                                        *)
Do(g, k, n) ==
    /\ pc[g] \in {"idle", "run"}
    /\ n \in Given \/ (n \in Fresh /\ obj[n] # "closed")
    /\ Go(g, k, "call", "do", n)
    /\ Gettid(g, k)
    /\ UNCHANGED <<making, mnt>>

(* The Do of hostNS, by the function that was given it.                    *)
DoHost(g, k) ==
    /\ pc[g] = "run"
    /\ Go(g, k, "call", "host", host[caller[g]])
    /\ Gettid(g, k)
    /\ UNCHANGED <<making, mnt>>

(* Mutant: the function is given the namespace that it runs in.            *)
OpenHostTarget(k) ==
    /\ Goto(k, "call", "start")
    /\ host' = [host EXCEPT ![caller[k]] = target[k]]
    /\ tid' = [tid EXCEPT ![k] = None]
    /\ UNCHANGED <<tns, on, caller, task, target, saved, failed, making, mounts, history, faults>>

(* Later GetNS opens the namespace that the thread is in by then, and the  *)
(* goroutine starts.  A caller that is not locked may have left the thread *)
(* to a worker.                                                            *)
OpenHost(k) ==
    /\ Goto(k, "call", "start")
    /\ host' = [host EXCEPT ![caller[k]] = tns[tid[k]]]
    /\ tid' = [tid EXCEPT ![k] = None]
    /\ overtaken' = IF RunsOn(caller[k], tid[k]) THEN overtaken ELSE overtaken \cup {caller[k]}
    /\ UNCHANGED <<tns, on, caller, task, target, saved, failed, making, mounts, astray, faults>>

(* Nothing has anything to do with a namespace that does not exist yet.    *)
Unused(n) ==
    /\ mnt[n] = "none" /\ obj[n] = "closed"
    /\ \A t \in Threads : tns[t] # n
    /\ \A g \in Goroutines : host[g] # n /\ making[g] # n
    /\ \A k \in Workers : target[k] # n /\ saved[k] # n

(* NewNS creates the file for the mount point first.                       *)
NewNS(g, k, n) ==
    /\ pc[g] \in {"idle", "run"}
    /\ Unused(n)
    /\ mnt' = [mnt EXCEPT ![n] = "file"]
    /\ making' = [making EXCEPT ![g] = n]
    /\ Go(g, k, "start", "new", n)
    /\ UNCHANGED tid

-----------------------------------------------------------------------------
(* containedCall, and the goroutine of NewNS.                              *)

(* threadNS or origNS: a handle on the thread's namespace.                 *)
OpenThread(k) ==
    /\ Goto(k, "open", IF task[k] = "new" THEN "unshare" ELSE "set")
    /\ \E t \in Threads : RunsOn(k, t) /\ saved' = [saved EXCEPT ![k] = tns[t]]
    /\ UNCHANGED <<tns, on, host, caller, task, target, tid, failed, making, mounts, history, faults>>

(* Set: the thread enters the namespace; or, in NewNS, a new one.          *)
Set(k) ==
    /\ \/ Goto(k, "set", "run") /\ (task[k] = "do" /\ target[k] \in Fresh => obj[target[k]] = "open")
       \/ Goto(k, "unshare", "mount")
    /\ \E t \in Threads : RunsOn(k, t) /\ tns' = [tns EXCEPT ![t] = target[k]]
    /\ UNCHANGED <<on, host, goroutine, mounts, history, faults>>

(* Opening or entering a namespace fails: the goroutine ends there.        *)
Abort(k) ==
    /\ pc' = [pc EXCEPT ![k] = "exit"]
    /\ saved' = [saved EXCEPT ![k] = None]
    /\ failed' = [failed EXCEPT ![caller[k]] = TRUE]
    /\ UNCHANGED <<tns, on, host, caller, task, target, tid, making, mounts, history>>

OpenFault(k) == pc[k] \in {"open", "set", "unshare"} /\ Abort(k) /\ Fault

(* The object was closed since Do began, or its file is.                   *)
SetClosed(k) ==
    /\ pc[k] = "set" /\ task[k] = "do" /\ target[k] \in Fresh /\ obj[target[k]] # "open"
    /\ Abort(k)
    /\ UNCHANGED faults

(* The function returns, with or without an error.                         *)
Finish(k) ==
    /\ Goto(k, "run", "back")
    /\ UNCHANGED <<tns, on, host, goroutine, mounts, history, faults>>

Mount(k) ==
    /\ Goto(k, "mount", "fd")
    /\ mnt' = [mnt EXCEPT ![target[k]] = "mounted"]
    /\ UNCHANGED <<tns, on, host, goroutine, obj, lost, history, faults>>

OpenMount(k) ==
    /\ Goto(k, "fd", "back")
    /\ UNCHANGED <<tns, on, host, goroutine, mounts, history, faults>>

MountFault(k) ==
    /\ Goto(k, "mount", "back") \/ Goto(k, "fd", "back")
    /\ failed' = [failed EXCEPT ![caller[k]] = TRUE]
    /\ Fault
    /\ UNCHANGED <<tns, on, host, caller, task, target, tid, saved, making, mounts, history>>

(* Mutant: the thread is sent to where the caller is.                      *)
SetBackToHost(k) ==
    /\ Goto(k, "back", "exit")
    /\ \E t \in Threads : RunsOn(k, t) /\ tns' = [tns EXCEPT ![t] = IF task[k] = "new" THEN saved[k] ELSE host[caller[k]]]
    /\ saved' = [saved EXCEPT ![k] = None]
    /\ UNCHANGED <<on, host, caller, task, target, tid, failed, making, mounts, history, faults>>

(* The deferred threadNS.Set() and threadNS.Close(), in this order.        *)
SetBack(k) ==
    /\ Goto(k, "back", "exit")
    /\ \E t \in Threads : RunsOn(k, t) /\ tns' = [tns EXCEPT ![t] = saved[k]]
    /\ saved' = [saved EXCEPT ![k] = None]
    /\ UNCHANGED <<on, host, caller, task, target, tid, failed, making, mounts, history, faults>>

(* The error of the deferred Set is ignored.                               *)
SetBackFault(k) ==
    /\ Goto(k, "back", "exit")
    /\ astray' = astray \cup {t \in Threads : RunsOn(k, t)}
    /\ saved' = [saved EXCEPT ![k] = None]
    /\ Fault
    /\ UNCHANGED <<tns, on, host, caller, task, target, tid, failed, making, mounts, overtaken>>

(* The goroutine, or the call that has not started one, ends; the caller   *)
(* goes on.                                                                *)
End(k, to) ==
    /\ pc' = [pc EXCEPT ![k] = "free", ![caller[k]] = to]
    /\ on' = [on EXCEPT ![k] = None]
    /\ caller' = [caller EXCEPT ![k] = None]
    /\ task' = [task EXCEPT ![k] = None]
    /\ target' = [target EXCEPT ![k] = None]
    /\ tid' = [tid EXCEPT ![k] = None]
    /\ UNCHANGED <<tns, host, saved, failed, making, mounts, history>>

(* Mutant: wg.Done is not reached if there was an error.                   *)
ExitSilently(k) ==
    /\ pc[k] = "exit"
    /\ End(k, IF failed[caller[k]] THEN "wait" ELSE "return")
    /\ UNCHANGED faults

(* wg.Done wakes the caller, and the end of the goroutine frees its thread.*)
Exit(k) == pc[k] = "exit" /\ End(k, "return") /\ UNCHANGED faults

(* The caller's namespace cannot be opened: Do returns without a goroutine.*)
HostFault(k) == pc[k] = "call" /\ End(k, "return") /\ Fault

-----------------------------------------------------------------------------
(* The caller goes on.                                                     *)

Resume(g) ==
    /\ Goto(g, "return", IF g \in Workers THEN "run" ELSE "idle")
    /\ failed' = [failed EXCEPT ![g] = FALSE]
    /\ making' = [making EXCEPT ![g] = None]
    /\ UNCHANGED <<tns, on, caller, task, target, tid, saved, astray>>

(* Do closes hostNS, WithNetNSPath the object it has opened, and they      *)
(* return.                                                                 *)
DoReturn(g) ==
    /\ making[g] = None
    /\ Resume(g)
    /\ host' = [host EXCEPT ![g] = None]
    /\ overtaken' = overtaken \ {g}
    /\ UNCHANGED <<mounts, faults>>

(* NewNS returns its object; the deferred RemoveAll does nothing to a file *)
(* that is a mount point.                                                  *)
NewNSReturn(g) ==
    /\ making[g] # None /\ ~ failed[g]
    /\ Resume(g)
    /\ obj' = [obj EXCEPT ![making[g]] = "open"]
    /\ UNCHANGED <<host, mnt, lost, overtaken, faults>>

(* Mutant: the namespace is not unmounted.                                 *)
NewNSNoUnmount(g) ==
    /\ making[g] # None /\ failed[g]
    /\ Resume(g)
    /\ mnt' = [mnt EXCEPT ![making[g]] = IF @ = "mounted" THEN "mounted" ELSE "none"]
    /\ UNCHANGED <<host, obj, lost, overtaken, faults>>

(* Or it unmounts what was mounted, and removes the file.                  *)
NewNSCleanup(g) ==
    /\ making[g] # None /\ failed[g]
    /\ Resume(g)
    /\ mnt' = [mnt EXCEPT ![making[g]] = "none"]
    /\ UNCHANGED <<host, obj, lost, overtaken, faults>>

(* One of these fails, and the error is ignored.  This is not counted: it  *)
(* follows upon a failure that is.                                         *)
NewNSCleanupFault(g) ==
    /\ making[g] # None /\ failed[g]
    /\ Resume(g)
    /\ \E m \in {"file", mnt[making[g]]} : mnt' = [mnt EXCEPT ![making[g]] = m]
    /\ lost' = lost \cup {making[g]}
    /\ UNCHANGED <<host, obj, overtaken, faults>>

(* Close, which any goroutine may call; a second Close is an error.        *)
Close(n) ==
    /\ obj[n] = "open"
    /\ obj' = [obj EXCEPT ![n] = "closed"]
    /\ mnt' = [mnt EXCEPT ![n] = "none"]
    /\ UNCHANGED <<tns, on, pc, host, goroutine, lost, history, faults>>

(* It fails to unmount, or to remove the file, and the object is closed;   *)
(* or it fails to close the file, which is closed all the same, and the    *)
(* object is stale: either way this cannot be tried again.                 *)
CloseFault(n) ==
    /\ obj[n] = "open"
    /\ \/ /\ obj' = [obj EXCEPT ![n] = "closed"]
          /\ \E m \in {"file", "mounted"} : mnt' = [mnt EXCEPT ![n] = m]
       \/ obj' = [obj EXCEPT ![n] = "stale"] /\ UNCHANGED mnt
    /\ lost' = lost \cup {n}
    /\ Fault
    /\ UNCHANGED <<tns, on, pc, host, goroutine, history>>

-----------------------------------------------------------------------------
Work(k) ==
    \/ OpenHost(k) \/ HostFault(k)
    \/ \E t \in Threads : Dispatch(k, t)
    \/ OpenThread(k) \/ Set(k) \/ OpenFault(k) \/ SetClosed(k)
    \/ Mount(k) \/ OpenMount(k) \/ MountFault(k)
    \/ SetBack(k) \/ SetBackFault(k) \/ Exit(k)

Return(g) == DoReturn(g) \/ NewNSReturn(g) \/ NewNSCleanup(g) \/ NewNSCleanupFault(g)

Next ==
    \/ \E t, u \in Threads : Clone(t, u)
    \/ \E g \in Goroutines, k \in Workers :
        \/ DoHost(g, k)
        \/ \E n \in Namespaces : Do(g, k, n)
        \/ \E n \in Fresh : NewNS(g, k, n)
    \/ \E k \in Workers : Work(k) \/ Finish(k)
    \/ \E g \in Goroutines : Return(g)
    \/ \E n \in Fresh : Close(n) \/ CloseFault(n)

Spec == Init /\ [][Next]_vars

(* The scheduler starts a thread if there is none for a goroutine that is  *)
(* ready, and every function that Do runs comes to its end, however many   *)
(* nested calls it makes before.                                           *)
Fairness ==
    /\ WF_vars(\E t, u \in Threads : Clone(t, u))
    /\ \A k \in Workers : WF_vars(Work(k)) /\ SF_vars(Finish(k))
    /\ \A g \in Goroutines : WF_vars(Return(g))

FairSpec == Spec /\ Fairness

-----------------------------------------------------------------------------
(* Properties.                                                             *)

PCs == {"idle", "free", "call", "start", "open", "set", "unshare", "run", "mount", "fd", "back", "exit", "wait", "return"}

(* The types of the variables; a goroutine is locked to a thread that      *)
(* exists, and to one that no other is locked to.                          *)
TypeOK ==
    /\ tns \in [Threads -> Namespaces \cup {None}]
    /\ on \in [Goroutines -> Threads \cup {None}]
    /\ pc \in [Goroutines -> PCs]
    /\ caller \in [Workers -> Goroutines \cup {None}]
    /\ task \in [Workers -> {"do", "host", "new", None}]
    /\ target \in [Workers -> Namespaces \cup {None}]
    /\ tid \in [Workers -> Threads \cup {None}]
    /\ host \in [Goroutines -> Namespaces \cup {None}]
    /\ saved \in [Workers -> Namespaces \cup {None}]
    /\ failed \in [Goroutines -> BOOLEAN]
    /\ making \in [Goroutines -> Fresh \cup {None}]
    /\ mnt \in [Fresh -> {"none", "file", "mounted"}] /\ obj \in [Fresh -> {"open", "closed", "stale"}]
    /\ astray \subseteq Threads /\ overtaken \subseteq Goroutines
    /\ lost \subseteq Fresh /\ faults \in 0 .. MaxFaults
    /\ \A g \in Goroutines : on[g] # None => Exists(on[g])
    /\ \A g, h \in Goroutines : on[g] = on[h] /\ on[g] # None => g = h

(* The worker runs a function, or waits for a nested call of it.           *)
InFunction(k) == task[k] # "new" /\ pc[k] \in {"run", "wait", "return"}

(* "Executes the passed closure in this object's network namespace":       *)
(* whichever thread a step of the function may be executed on, it is in    *)
(* the namespace, for as long as the function runs, whatever nested calls, *)
(* other goroutines and new threads do, and even if threads are astray;    *)
(* and the main goroutine, which is locked to its thread, is never moved   *)
(* out of the namespace of the program.                                    *)
RunsInTarget ==
    /\ \A k \in Workers : InFunction(k) => \A t \in Threads : RunsOn(k, t) => tns[t] = target[k]
    /\ \A t \in Threads : RunsOn(Main, t) => tns[t] = Home

(* The worker has moved its thread and not sent it back yet.               *)
Away(k) == pc[k] \in {"run", "wait", "return", "mount", "fd", "back"}

(* A thread is in another namespace only while a worker uses it, or if its *)
(* way back failed, or if it is born from such a thread: Do and NewNS      *)
(* leave no other thread behind in a namespace, which may then be closed   *)
(* ("should not leak a closed netns onto any threads in the process").     *)
ThreadsComeHome ==
    \A t \in Threads : Exists(t) /\ tns[t] # Home =>
        t \in astray \/ \E k \in Workers : on[k] = t /\ Away(k)

(* The function gets the namespace that its caller runs in, if the caller  *)
(* is locked to its thread, as the functions of Do and the main goroutine  *)
(* are, whatever is astray.  A caller that is not locked is given the      *)
(* program's own, unless threads are astray or the thread that it has      *)
(* noted was another goroutine's when its namespace was opened.            *)
HostIsCallers ==
    \A k \in Workers : InFunction(k) =>
        LET g == caller[k]
        IN  \/ g \in Workers /\ host[g] = target[g]
            \/ g \notin Workers /\ host[g] = Home
            \/ g \in Handlers /\ (astray # {} \/ g \in overtaken)

(* A mount point or its file exists only for a namespace that somebody can *)
(* still close, or that is being made, or whose clean-up failed: NewNS     *)
(* leaves nothing behind when it fails half-way.                           *)
MountsOwned ==
    \A n \in Fresh : mnt[n] # "none" =>
        obj[n] = "open" \/ n \in lost \/ \E g \in Goroutines : making[g] = n

(* Every Do and NewNS returns: no caller waits for a goroutine that was    *)
(* never started or has ended, and nested calls find a thread although all *)
(* their callers keep theirs.                                              *)
CallsReturn == \A g \in Callers : pc[g] = "wait" ~> pc[g] = "idle"
=============================================================================
