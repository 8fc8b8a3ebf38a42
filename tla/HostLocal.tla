----------------------------- MODULE HostLocal -----------------------------
(***************************************************************************)
(* The host-local IPAM plugin.  Every ADD and every DEL is a process of    *)
(* its own; the processes for one network share nothing but a directory,   *)
(* /var/lib/cni/networks/<name>, in which the file named after an address  *)
(* holds the id of the container the address is reserved for, and the file *)
(* last_reserved_ip holds the address that was reserved last.  A process   *)
(* takes flock(LOCK_EX) on the directory around Get and around Release.    *)
(*                                                                         *)
(* One action is one system call on the directory, with the computation    *)
(* that leads to the next one.  A process may be killed before any of its  *)
(* steps, and a system call may fail: Crash and the ...Fault actions, of   *)
(* which there are at most MaxCrashes and MaxFaults in a behaviour.        *)
(***************************************************************************)
EXTENDS IPRange, FiniteSets

CONSTANTS
    Procs,        \* slots for live plugin processes
    Ids,          \* the container ids (CNI_CONTAINERID); may contain Empty
    MaxAddr,      \* the largest address of the model
    Confs,        \* the IPAM configurations the invocations are given
    LastFile,     \* the name "last_reserved_ip"
    NoFile,       \* the "content" of a file that does not exist
    Empty,        \* the empty string: the content of a file just created
    MaxCrashes,   \* bound on the number of processes that are killed
    MaxFaults,    \* bound on the number of system calls that fail
    LockMayFail   \* whether flock(LOCK_EX) is one of them

VARIABLES
    dir,       \* content of every file of the network's directory
    lock,      \* the process that holds the flock, or Nil
    pc,        \* where each process is
    op,        \* its CNI_COMMAND
    cid,       \* its CNI_CONTAINERID
    conf,      \* its configuration
    cur,       \* Get: the address being tried; ReleaseByID: the file read
    endIP,     \* Get: the address at which the search gives up
    todo,      \* ReleaseByID: the names that filepath.Walk has yet to visit
    result,    \* what the command will return
    granted,   \* history: the <<id, address>> pairs that ADDs have returned
               \* and whose container has not been DELeted since
    crashes,   \* history: number of processes killed
    faults     \* history: number of system calls that failed

local == <<op, cid, conf, cur, endIP, todo, result>>
vars == <<dir, lock, pc, op, cid, conf, cur, endIP, todo, result, granted, crashes, faults>>

Addr == 0 .. MaxAddr
Names == Addr \cup {LastFile}

ASSUME SentinelAssumption ==
    /\ MaxAddr \in Nat /\ MaxCrashes \in Nat /\ MaxFaults \in Nat
    /\ LockMayFail \in BOOLEAN
    /\ Nil \notin Procs \cup Names \cup Ids
    /\ Nil \notin {"ADD", "DEL", "ok"}
    /\ LastFile \notin Addr
    /\ NoFile \notin Ids \cup Addr \cup {Empty}
    /\ Empty \notin Addr

(* The configurations have integer fields in the model's range, and those  *)
(* that NewIPAllocator accepts have a range that is not empty.             *)
ASSUME ConfAssumption ==
    /\ Nil \notin Confs
    /\ \A c \in Confs :
        /\ c \in IPAMConfig(Addr)
        /\ Accepts(c) => Start(c) \in Addr /\ End(c) \in Addr /\ Start(c) <= End(c)

(* A container whose id is the empty string cannot be told from a          *)
(* reservation whose id is yet to be written, except through the lock.     *)
ASSUME EmptyIdAssumption == LockMayFail => Empty \notin Ids

Live(p) == pc[p] # "idle"

(* A process that has started Get or Release and has not yet unlocked.     *)
InCritical(p) == pc[p] \notin {"idle", "open", "lock", "return"}

Init ==
    /\ dir = [f \in Names |-> NoFile]
    /\ lock = Nil
    /\ pc = [p \in Procs |-> "idle"]
    /\ op = [p \in Procs |-> Nil]
    /\ cid = [p \in Procs |-> Nil]
    /\ conf = [p \in Procs |-> Nil]
    /\ cur = [p \in Procs |-> Nil]
    /\ endIP = [p \in Procs |-> Nil]
    /\ todo = [p \in Procs |-> {}]
    /\ result = [p \in Procs |-> Nil]
    /\ granted = {}
    /\ crashes = 0
    /\ faults = 0

-----------------------------------------------------------------------------
(* Common parts of the actions.                                            *)

Goto(p, from, to) == pc[p] = from /\ pc' = [pc EXCEPT ![p] = to]

NoFault == UNCHANGED <<crashes, faults>>

Fault ==
    /\ faults < MaxFaults
    /\ faults' = faults + 1
    /\ UNCHANGED crashes

(* The command is about to return r; the deferred Unlock comes first.      *)
Finish(p, from, r) ==
    /\ Goto(p, from, "unlock")
    /\ result' = [result EXCEPT ![p] = r]
    /\ UNCHANGED <<op, cid, conf, cur, endIP, todo>>

Step(p, from, to) == Goto(p, from, to) /\ UNCHANGED local

(* The process is gone: its variables with it, and the lock if it held it. *)
Exit(p) ==
    /\ pc' = [pc EXCEPT ![p] = "idle"]
    /\ op' = [op EXCEPT ![p] = Nil]
    /\ cid' = [cid EXCEPT ![p] = Nil]
    /\ conf' = [conf EXCEPT ![p] = Nil]
    /\ cur' = [cur EXCEPT ![p] = Nil]
    /\ endIP' = [endIP EXCEPT ![p] = Nil]
    /\ todo' = [todo EXCEPT ![p] = {}]
    /\ result' = [result EXCEPT ![p] = Nil]
    /\ lock' = IF lock = p THEN Nil ELSE lock

-----------------------------------------------------------------------------
(* cmdAdd and cmdDel up to the call of Get or Release.                     *)

(* The runtime starts the plugin.  It runs one command per container at a  *)
(* time; a container that is being deleted no longer uses its addresses.   *)
Begin(p, o, i, c) ==
    /\ \A q \in Procs : Live(q) => cid[q] # i
    /\ Goto(p, "idle", "open")
    /\ op' = [op EXCEPT ![p] = o]
    /\ cid' = [cid EXCEPT ![p] = i]
    /\ conf' = [conf EXCEPT ![p] = c]
    /\ granted' = IF o = "DEL" THEN {g \in granted : g[1] # i} ELSE granted
    /\ UNCHANGED <<dir, lock, cur, endIP, todo, result>> /\ NoFault

(* NewIPAllocator rejects the configuration, before the lock is taken.     *)
Reject(p) ==
    /\ Goto(p, "open", "return")
    /\ ~ Accepts(conf[p])
    /\ result' = [result EXCEPT ![p] = "error"]
    /\ UNCHANGED <<dir, lock, op, cid, conf, cur, endIP, todo, granted>> /\ NoFault

(* disk.New cannot create or open the directory.                           *)
OpenFault(p) ==
    /\ Goto(p, "open", "return")
    /\ result' = [result EXCEPT ![p] = "error"]
    /\ Fault
    /\ UNCHANGED <<dir, lock, op, cid, conf, cur, endIP, todo, granted>>

Open(p) ==
    /\ Step(p, "open", "lock")
    /\ Accepts(conf[p])
    /\ UNCHANGED <<dir, lock, granted>> /\ NoFault

AfterLock(p) == IF op[p] = "ADD" THEN "get" ELSE "walk"

(* Get and Release block in flock until the directory is free ...          *)
Lock(p) ==
    /\ Step(p, "lock", AfterLock(p))
    /\ lock = Nil
    /\ lock' = p
    /\ UNCHANGED <<dir, granted>> /\ NoFault

(* ... and go on without the lock if flock returns an error, which they    *)
(* do not look at.                                                         *)
LockFault(p) ==
    /\ Step(p, "lock", AfterLock(p))
    /\ LockMayFail
    /\ Fault
    /\ UNCHANGED <<dir, lock, granted>>

-----------------------------------------------------------------------------
(* IPAllocator.Get                                                         *)

(* Is the address that CNI_ARGS requests one that Get may reserve?         *)
Admissible(c) ==
    /\ c.requested # Gateway(c)
    /\ InBounds(c, c.requested, Start(c), End(c))

RefuseRequest(p) ==
    /\ Finish(p, "get", "refused")
    /\ conf[p].requested # Nil
    /\ ~ Admissible(conf[p])
    /\ UNCHANGED <<dir, lock, granted>> /\ NoFault

Request(p) ==
    /\ Goto(p, "get", "reserve")
    /\ conf[p].requested # Nil
    /\ Admissible(conf[p])
    /\ cur' = [cur EXCEPT ![p] = conf[p].requested]
    /\ UNCHANGED <<dir, lock, op, cid, conf, endIP, todo, result, granted>> /\ NoFault

SearchFrom(p, lastIP) ==
    /\ Goto(p, "get", "scan")
    /\ conf[p].requested = Nil
    /\ cur' = [cur EXCEPT ![p] = SearchStart(conf[p], lastIP)]
    /\ endIP' = [endIP EXCEPT ![p] = SearchEnd(conf[p], lastIP)]
    /\ UNCHANGED <<dir, lock, op, cid, conf, todo, result, granted>>

(* LastReservedIP: a missing file is an error, an empty one does not parse *)
(* as an address; getSearchRange treats both as no address.                *)
LastReservedIP == IF dir[LastFile] \in Addr THEN dir[LastFile] ELSE Nil

Search(p) == SearchFrom(p, LastReservedIP) /\ NoFault

SearchFault(p) == SearchFrom(p, Nil) /\ Fault

(* The head of Get's loop: give up, skip the gateway, or try to reserve.   *)
Exhausted(p) ==
    /\ Finish(p, "scan", "exhausted")
    /\ cur[p] = endIP[p]
    /\ UNCHANGED <<dir, lock, granted>> /\ NoFault

Advance(p, from) ==
    /\ Goto(p, from, "scan")
    /\ cur' = [cur EXCEPT ![p] = NextInRange(conf[p], cur[p])]
    /\ UNCHANGED <<dir, lock, op, cid, conf, endIP, todo, result, granted>> /\ NoFault

(* Mutant: the gateway is met, and the loop goes round without advancing.  *)
SkipGatewayStuck(p) ==
    /\ Step(p, "scan", "scan")
    /\ cur[p] # endIP[p]
    /\ cur[p] = Gateway(conf[p])
    /\ UNCHANGED <<dir, lock, granted>> /\ NoFault

SkipGateway(p) ==
    /\ Advance(p, "scan")
    /\ cur[p] # endIP[p]
    /\ cur[p] = Gateway(conf[p])

Try(p) ==
    /\ Step(p, "scan", "reserve")
    /\ cur[p] # endIP[p]
    /\ cur[p] # Gateway(conf[p])
    /\ UNCHANGED <<dir, lock, granted>> /\ NoFault

-----------------------------------------------------------------------------
(* Store.Reserve                                                           *)

(* Mutant: a requested address that is taken is returned all the same.     *)
TakenReturned(p) ==
    /\ pc[p] = "reserve"
    /\ dir[cur[p]] # NoFile
    /\ \/ conf[p].requested = Nil /\ Advance(p, "reserve")
       \/ /\ conf[p].requested # Nil
          /\ Finish(p, "reserve", "ok")
          /\ UNCHANGED <<dir, lock, granted>> /\ NoFault

(* open(O_EXCL|O_CREATE) finds the file: the search goes on with the next  *)
(* address, a request has failed.                                          *)
Taken(p) ==
    /\ pc[p] = "reserve"
    /\ dir[cur[p]] # NoFile
    /\ \/ conf[p].requested = Nil /\ Advance(p, "reserve")
       \/ /\ conf[p].requested # Nil
          /\ Finish(p, "reserve", "taken")
          /\ UNCHANGED <<dir, lock, granted>> /\ NoFault

(* Mutant: the file is created without O_EXCL.                             *)
CreateNoExcl(p) ==
    /\ Step(p, "reserve", "write")
    /\ dir' = [dir EXCEPT ![cur[p]] = Empty]
    /\ UNCHANGED <<lock, granted>> /\ NoFault

Create(p) ==
    /\ Step(p, "reserve", "write")
    /\ dir[cur[p]] = NoFile
    /\ dir' = [dir EXCEPT ![cur[p]] = Empty]
    /\ UNCHANGED <<lock, granted>> /\ NoFault

CreateFault(p) ==
    /\ Finish(p, "reserve", "error")
    /\ Fault
    /\ UNCHANGED <<dir, lock, granted>>

(* Mutant: the id is not written.                                          *)
WriteNothing(p) ==
    /\ Step(p, "write", "close")
    /\ UNCHANGED <<dir, lock, granted>> /\ NoFault

WriteID(p) ==
    /\ Step(p, "write", "close")
    /\ dir' = [dir EXCEPT ![cur[p]] = cid[p]]
    /\ UNCHANGED <<lock, granted>> /\ NoFault

WriteFault(p) ==
    /\ Step(p, "write", "undo")
    /\ Fault
    /\ UNCHANGED <<dir, lock, granted>>

Close(p) ==
    /\ Step(p, "close", "truncate")
    /\ UNCHANGED <<dir, lock, granted>> /\ NoFault

CloseFault(p) ==
    /\ Step(p, "close", "undo")
    /\ Fault
    /\ UNCHANGED <<dir, lock, granted>>

(* After a failed write or close the file is removed, if that succeeds.    *)
Undo(p) ==
    /\ Finish(p, "undo", "error")
    /\ dir' = [dir EXCEPT ![cur[p]] = NoFile]
    /\ UNCHANGED <<lock, granted>> /\ NoFault

UndoFault(p) ==
    /\ Finish(p, "undo", "error")
    /\ Fault
    /\ UNCHANGED <<dir, lock, granted>>

(* ioutil.WriteFile of last_reserved_ip truncates the file, then writes    *)
(* it.  If either fails Reserve returns the error, and the address stays   *)
(* reserved.                                                               *)
Truncate(p) ==
    /\ Step(p, "truncate", "last")
    /\ dir' = [dir EXCEPT ![LastFile] = Empty]
    /\ UNCHANGED <<lock, granted>> /\ NoFault

WriteLast(p) ==
    /\ Finish(p, "last", "ok")
    /\ dir' = [dir EXCEPT ![LastFile] = cur[p]]
    /\ UNCHANGED <<lock, granted>> /\ NoFault

LastFault(p) ==
    /\ Finish(p, "truncate", "error") \/ Finish(p, "last", "error")
    /\ Fault
    /\ UNCHANGED <<dir, lock, granted>>

-----------------------------------------------------------------------------
(* Store.ReleaseByID                                                       *)

(* filepath.Walk lists the directory once.                                 *)
Walk(p) ==
    /\ Goto(p, "walk", "visit")
    /\ todo' = [todo EXCEPT ![p] = {f \in Names : dir[f] # NoFile}]
    /\ UNCHANGED <<dir, lock, op, cid, conf, cur, endIP, result, granted>> /\ NoFault

(* An error of the listing is eaten: there is nothing to visit.            *)
WalkFault(p) ==
    /\ Step(p, "walk", "visit")
    /\ Fault
    /\ UNCHANGED <<dir, lock, granted>>

(* Mutant: the content of the file is not compared with the id.            *)
MatchAny(p, f) ==
    /\ Goto(p, "visit", "remove")
    /\ f \in todo[p]
    /\ cur' = [cur EXCEPT ![p] = f]
    /\ todo' = [todo EXCEPT ![p] = @ \ {f}]
    /\ UNCHANGED <<dir, lock, op, cid, conf, endIP, result, granted>> /\ NoFault

(* A file that holds the id is to be removed ...                           *)
Match(p, f) ==
    /\ Goto(p, "visit", "remove")
    /\ f \in todo[p]
    /\ dir[f] = cid[p]
    /\ cur' = [cur EXCEPT ![p] = f]
    /\ todo' = [todo EXCEPT ![p] = @ \ {f}]
    /\ UNCHANGED <<dir, lock, op, cid, conf, endIP, result, granted>> /\ NoFault

Pass(p, f) ==
    /\ Goto(p, "visit", "visit")
    /\ f \in todo[p]
    /\ todo' = [todo EXCEPT ![p] = @ \ {f}]
    /\ UNCHANGED <<dir, lock, op, cid, conf, cur, endIP, result, granted>>

(* ... a file that holds something else, or has gone, is passed over ...   *)
Mismatch(p, f) == Pass(p, f) /\ dir[f] # cid[p] /\ NoFault

(* ... and so is one that cannot be read.                                  *)
ReadFault(p, f) == Pass(p, f) /\ Fault

Remove(p) ==
    /\ Goto(p, "remove", "visit")
    /\ dir' = [dir EXCEPT ![cur[p]] = NoFile]
    /\ cur' = [cur EXCEPT ![p] = Nil]
    /\ UNCHANGED <<lock, op, cid, conf, endIP, todo, result, granted>> /\ NoFault

RemoveFault(p) ==
    /\ Goto(p, "remove", "visit")
    /\ cur' = [cur EXCEPT ![p] = Nil]
    /\ Fault
    /\ UNCHANGED <<dir, lock, op, cid, conf, endIP, todo, result, granted>>

(* Mutant: the walk ends at the first file it removes or passes.           *)
WalkDoneEarly(p) ==
    /\ Finish(p, "visit", "ok")
    /\ UNCHANGED <<dir, lock, granted>> /\ NoFault

WalkDone(p) ==
    /\ Finish(p, "visit", "ok")
    /\ todo[p] = {}
    /\ UNCHANGED <<dir, lock, granted>> /\ NoFault

-----------------------------------------------------------------------------
(* The deferred Unlock, and the end of the command.                        *)

Unlock(p) ==
    /\ Step(p, "unlock", "return")
    /\ lock' = IF lock = p THEN Nil ELSE lock
    /\ UNCHANGED <<dir, granted>> /\ NoFault

(* The result is printed: the runtime now believes that the container owns *)
(* the address.                                                            *)
Return(p) ==
    /\ pc[p] = "return"
    /\ granted' = IF op[p] = "ADD" /\ result[p] = "ok"
                  THEN granted \cup {<<cid[p], cur[p]>>} ELSE granted
    /\ Exit(p)
    /\ UNCHANGED dir /\ NoFault

(* The result of an ADD cannot be printed: to the runtime, it failed.      *)
PrintFault(p) ==
    /\ pc[p] = "return" /\ op[p] = "ADD" /\ result[p] = "ok"
    /\ Exit(p)
    /\ Fault
    /\ UNCHANGED <<dir, granted>>

(* The process is killed: the kernel drops its lock, its files stay.       *)
Crash(p) ==
    /\ Live(p)
    /\ crashes < MaxCrashes
    /\ crashes' = crashes + 1
    /\ Exit(p)
    /\ UNCHANGED <<dir, granted, faults>>

-----------------------------------------------------------------------------
(* The steps by which a process makes progress.                            *)
AddStep(p) ==
    \/ RefuseRequest(p) \/ Request(p) \/ Search(p) \/ SearchFault(p)
    \/ Exhausted(p) \/ SkipGateway(p) \/ Try(p)
    \/ Taken(p) \/ Create(p) \/ CreateFault(p)
    \/ WriteID(p) \/ WriteFault(p) \/ Close(p) \/ CloseFault(p)
    \/ Undo(p) \/ UndoFault(p) \/ Truncate(p) \/ WriteLast(p) \/ LastFault(p)

DelStep(p) ==
    \/ Walk(p) \/ WalkFault(p) \/ Remove(p) \/ RemoveFault(p) \/ WalkDone(p)
    \/ \E f \in Names : Match(p, f) \/ Mismatch(p, f) \/ ReadFault(p, f)

Progress(p) ==
    \/ Reject(p) \/ OpenFault(p) \/ Open(p)
    \/ Lock(p) \/ LockFault(p)
    \/ AddStep(p) \/ DelStep(p)
    \/ Unlock(p) \/ Return(p) \/ PrintFault(p)

Next ==
    \E p \in Procs :
        \/ \E o \in {"ADD", "DEL"}, i \in Ids, c \in Confs : Begin(p, o, i, c)
        \/ Progress(p)
        \/ Crash(p)

Spec == Init /\ [][Next]_vars

(* A process that is neither killed nor blocked runs on, and Linux grants  *)
(* a contended flock in the order of the requests.                         *)
Fairness == \A p \in Procs : WF_vars(Progress(p)) /\ SF_vars(Lock(p))

FairSpec == Spec /\ Fairness
-----------------------------------------------------------------------------
(* Properties.                                                             *)

PCs == {"idle", "open", "lock", "get", "scan", "reserve", "write", "close", "undo",
        "truncate", "last", "walk", "visit", "remove", "unlock", "return"}

Results == {"ok", "error", "refused", "exhausted", "taken"}

(* The types of the variables.                                             *)
TypeOK ==
    /\ dir \in [Names -> Ids \cup Addr \cup {NoFile, Empty}]
    /\ lock \in Procs \cup {Nil}
    /\ pc \in [Procs -> PCs]
    /\ op \in [Procs -> {"ADD", "DEL", Nil}]
    /\ cid \in [Procs -> Ids \cup {Nil}]
    /\ conf \in [Procs -> Confs \cup {Nil}]
    /\ cur \in [Procs -> Names \cup {Nil}]
    /\ endIP \in [Procs -> Addr \cup {Nil}]
    /\ todo \in [Procs -> SUBSET Names]
    /\ result \in [Procs -> Results \cup {Nil}]
    /\ granted \in SUBSET (Ids \X Addr)
    /\ crashes \in Nat
    /\ faults \in Nat

(* An address that an ADD has returned stays reserved on disk, for the     *)
(* container it was returned for, until that container is DELeted: no      *)
(* other process removes or overwrites the file, whatever is killed or     *)
(* fails meanwhile (Reserve's O_EXCL, ReleaseByID's comparison).           *)
GrantedIsOnDisk == \A g \in granted : dir[g[2]] = g[1]

(* Towards the runtime the plugin is an AddressPool: Get returns only      *)
(* addresses of the configured ranges that no container holds.             *)
Usable == UNION {IF Accepts(c) THEN Pool(c) ELSE {} : c \in Confs}
APool == INSTANCE AddressPool WITH Owners <- Ids, Addresses <- Usable, held <- granted
ImplementsPool == APool!Spec

(* A successful ADD returns an address of its own configuration's range,   *)
(* not the gateway, and the requested one if there was a request, even     *)
(* when last_reserved_ip was left by an invocation with another range.     *)
ReturnsPoolAddress ==
    \A p \in Procs : op[p] = "ADD" /\ result[p] = "ok" =>
        /\ cur[p] \in Pool(conf[p])
        /\ conf[p].requested # Nil => cur[p] = conf[p].requested

(* No process can have gone past flock without the lock.                   *)
LockReliable == ~ LockMayFail \/ faults = 0

(* When the search gives up, every address of the range is taken, except   *)
(* possibly the one at which it stops without trying it: the search visits *)
(* the range once around, and nothing is freed behind its back.            *)
ExhaustedMeansFull ==
    LockReliable =>
        \A p \in Procs : pc[p] = "unlock" /\ result[p] = "exhausted" =>
            \A a \in Pool(conf[p]) \ {endIP[p]} : dir[a] # NoFile

(* The address that is on disk for a successful ADD that has yet to print  *)
(* it cannot be lost: no other process may free it.                        *)
PendingIsOnDisk ==
    \A p \in Procs : op[p] = "ADD" /\ result[p] = "ok" => dir[cur[p]] = cid[p]

(* When a DEL that meets no failing system call unlocks, no file holds its *)
(* container's id: those of crashed ADDs and interrupted DELs went too.    *)
ReleaseFreesAll ==
    faults = 0 =>
        \A p \in Procs : op[p] = "DEL" /\ pc[p] = "unlock" =>
            \A f \in Names : dir[f] # cid[p]

(* As long as nothing is killed and nothing fails, and the configurations  *)
(* are accepted, every reserved address belongs to a container that was    *)
(* told of it or to a command that is still running.                       *)
NoLeak ==
    (crashes = 0 /\ faults = 0) =>
        \A a \in Addr : dir[a] # NoFile =>
            \/ <<dir[a], a>> \in granted
            \/ \E p \in Procs : Live(p) /\ (cid[p] = dir[a] \/ (pc[p] = "write" /\ cur[p] = a))

(* The addresses reserved with no id in the file, which no DEL can free.   *)
Orphans ==
    {a \in Addr : dir[a] = Empty /\ \A p \in Procs : pc[p] \in {"write", "undo"} => cur[p] # a}

(* Each killed process and each failing system call costs the pool at most *)
(* one such address.                                                       *)
OrphanBound == Empty \notin Ids => Cardinality(Orphans) <= crashes + faults

(* Every command returns, unless it is killed: the search wraps around and *)
(* meets its stopping address, the walk ends, the lock is passed on.       *)
Terminates == \A p \in Procs : Live(p) ~> ~Live(p)

(* What the search promises according to the documentation ("Select an     *)
(* unused IP within the specified range") and to the comment "end is       *)
(* inclusive and may be allocated": it fails only if nothing is free.      *)
ExhaustedMeansNoneFree ==
    \A p \in Procs : pc[p] = "unlock" /\ result[p] = "exhausted" =>
        \A a \in Pool(conf[p]) : dir[a] # NoFile
=============================================================================
