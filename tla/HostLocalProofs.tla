-------------------------- MODULE HostLocalProofs --------------------------
(***************************************************************************)
(* Proofs about the host-local plugin, for any number of processes,        *)
(* containers, addresses and configurations, any crashes and any failing   *)
(* system calls.                                                           *)
(*                                                                         *)
(* The argument is the invariant IInv.  Its first part says what a process *)
(* knows at each point; the second relates the reservations in progress to *)
(* the files and to the addresses handed out (O_EXCL makes a reservation   *)
(* exclusive, and only a DEL of the same container removes it); the third  *)
(* says how far a search or a walk has come, which needs the lock.         *)
(***************************************************************************)
EXTENDS HostLocalInv, TLAPS, FiniteSetTheorems

-----------------------------------------------------------------------------
(* Lemmas about the address arithmetic.                                    *)

(* The range of an accepted configuration is a range of addresses.         *)
LEMMA RangeOK ==
    ASSUME NEW c \in Confs, Accepts(c)
    PROVE  /\ Start(c) \in Addr /\ End(c) \in Addr /\ Start(c) <= End(c)
           /\ c.requested \in Addr \cup {Nil}
BY ConfAssumption DEF IPAMConfig

(* nextIP does not leave the range.                                        *)
LEMMA NextOK ==
    ASSUME NEW c \in Confs, Accepts(c), NEW a \in Addr, Start(c) <= a, a <= End(c)
    PROVE  /\ NextInRange(c, a) \in Addr
           /\ Start(c) <= NextInRange(c, a) /\ NextInRange(c, a) <= End(c)
<1> DEFINE s == Start(c)
           e == End(c)
<1>1. s \in Addr /\ e \in Addr /\ s <= e
  BY RangeOK
<1>2. NextInRange(c, a) = IF a = e THEN s ELSE a + 1
  BY DEF NextInRange, NextIP
<1> HIDE DEF s, e
<1> QED
  BY <1>1, <1>2, SentinelAssumption DEF Addr, s, e

(* getSearchRange starts and stops in the range, and starts right behind   *)
(* where it stops, whatever last_reserved_ip holds.                        *)
LEMMA SearchOK ==
    ASSUME NEW c \in Confs, Accepts(c), NEW last \in Addr \cup {Nil}
    PROVE  /\ SearchEnd(c, last) \in Addr
           /\ Start(c) <= SearchEnd(c, last) /\ SearchEnd(c, last) <= End(c)
           /\ SearchStart(c, last) = NextInRange(c, SearchEnd(c, last))
<1>1. CASE StartFromLast(c, last)
  <2>1. last \in Addr /\ Start(c) <= last /\ last <= End(c)
    BY <1>1, RangeOK, SentinelAssumption DEF StartFromLast, InBounds, Names
  <2> QED
    BY <1>1, <2>1 DEF SearchStart, SearchEnd
<1>2. CASE ~ StartFromLast(c, last)
  BY <1>2, RangeOK, SentinelAssumption DEF SearchStart, SearchEnd, Addr, NextInRange
<1> QED
  BY <1>1, <1>2

(* A search has passed nothing when it starts, one address more after each *)
(* step, and all but the stopping address when it is back there.           *)
LEMMA PassedOK ==
    ASSUME NEW c \in Confs, Accepts(c), NEW e \in Addr, Start(c) <= e, e <= End(c),
           NEW x \in Addr, Start(c) <= x, x <= End(c), NEW a \in Addr
    PROVE  /\ ~ Passed(c, e, NextInRange(c, e), a)
           /\ x # e /\ Passed(c, e, NextInRange(c, x), a) => Passed(c, e, x, a) \/ a = x
           /\ Start(c) <= a /\ a <= End(c) /\ a # e => Passed(c, e, e, a)
<1> DEFINE s == Start(c)
           t == End(c)
<1>1. s \in Addr /\ t \in Addr /\ s <= t
  BY RangeOK
<1>2. \A y : NextInRange(c, y) = IF y = t THEN s ELSE y + 1
  BY DEF NextInRange, NextIP
<1>3. \A y : Passed(c, e, y, a) <=>
             s <= a /\ a <= t /\ IF y > e THEN e < a /\ a < y ELSE e < a \/ a < y
  BY DEF Passed
<1> HIDE DEF s, t
<1> QED
  BY <1>1, <1>2, <1>3, SentinelAssumption DEF Addr, s, t

-----------------------------------------------------------------------------
(* IInv holds in the empty directory in which the plugin starts.           *)
LEMMA InitOK == Init => IInv
<1> SUFFICES ASSUME Init PROVE IInv
  OBVIOUS
<1>1. TypeOK
  BY SentinelAssumption DEF Init, TypeOK, PCs
<1>2. CommandOK /\ AddressOK /\ Locked /\ OneCommandPerId
  BY SentinelAssumption
  DEF Init, CommandOK, AddressOK, Locked, OneCommandPerId, Live, InCritical, Holds, Successful,
      AddPCs, DelPCs, Searching
<1> QED
  BY <1>1, <1>2, SentinelAssumption
  DEF Init, IInv, HoldsOnDisk, HoldsAlone, HoldsFresh, DelDrops, RemovesOwn, GrantedIsOnDisk,
      PassedAreTaken, WalkedAreFreed, ExhaustedMeansFull, ReleaseFreesAll, Live, InCritical,
      Holds, Successful, AddPCs, DelPCs, Searching

-----------------------------------------------------------------------------
(* IInv is preserved by every action.                                      *)

(* cmdAdd and cmdDel up to the lock.                                       *)
LEMMA BeginPreserves ==
    ASSUME IInv, NEW p \in Procs, NEW o \in {"ADD", "DEL"}, NEW i \in Ids, NEW c \in Confs,
           Begin(p, o, i, c)
    PROVE  IInv'
<1> USE SentinelAssumption, EmptyIdAssumption
    DEF IInv, TypeOK, CommandOK, AddressOK, Locked, OneCommandPerId, HoldsOnDisk, HoldsAlone,
        HoldsFresh, DelDrops, RemovesOwn, GrantedIsOnDisk, PassedAreTaken, WalkedAreFreed,
        ExhaustedMeansFull, ReleaseFreesAll, PCs, Results, Live, InCritical, Holds, Successful,
        AddPCs, DelPCs, Searching, LockReliable, Names, Goto, Step, Finish, local, NoFault, Fault
<1> QED
  BY DEF Begin

(* Opening the store, checking the configuration, taking the lock.         *)
LEMMA OpenPreserves ==
    ASSUME IInv, NEW p \in Procs, Reject(p) \/ OpenFault(p) \/ Open(p) \/ Lock(p) \/ LockFault(p)
    PROVE  IInv'
<1> USE SentinelAssumption, EmptyIdAssumption
    DEF IInv, TypeOK, CommandOK, AddressOK, Locked, OneCommandPerId, HoldsOnDisk, HoldsAlone,
        HoldsFresh, DelDrops, RemovesOwn, GrantedIsOnDisk, PassedAreTaken, WalkedAreFreed,
        ExhaustedMeansFull, ReleaseFreesAll, PCs, Results, Live, InCritical, Holds, Successful,
        AddPCs, DelPCs, Searching, LockReliable, Names, Goto, Step, Finish, local, NoFault, Fault
<1>1. CASE Reject(p)
  BY <1>1 DEF Reject
<1>2. CASE OpenFault(p)
  BY <1>2 DEF OpenFault
<1>3. CASE Open(p)
  BY <1>3 DEF Open
<1>4. CASE Lock(p)
  BY <1>4 DEF Lock, AfterLock
<1>5. CASE LockFault(p)
  BY <1>5 DEF LockFault, AfterLock
<1> QED
  BY <1>1, <1>2, <1>3, <1>4, <1>5

(* The loop of Get goes on from an address that is taken or the gateway.   *)
LEMMA AdvancePreserves ==
    ASSUME IInv, NEW p \in Procs, NEW from, Advance(p, from), from \in {"scan", "reserve"},
           conf[p].requested = Nil, cur[p] # endIP[p],
           dir[cur[p]] # NoFile \/ cur[p] = Gateway(conf[p])
    PROVE  IInv'
<1> USE SentinelAssumption, EmptyIdAssumption
    DEF IInv, TypeOK, CommandOK, AddressOK, Locked, OneCommandPerId, HoldsOnDisk, HoldsAlone,
        HoldsFresh, DelDrops, RemovesOwn, GrantedIsOnDisk, PassedAreTaken, WalkedAreFreed,
        ExhaustedMeansFull, ReleaseFreesAll, PCs, Results, Live, InCritical, Holds, Successful,
        AddPCs, DelPCs, Searching, LockReliable, Names, Goto, Step, Finish, local, NoFault, Fault
<1> DEFINE next == NextInRange(conf[p], cur[p])
<1>1. /\ conf[p] \in Confs /\ Accepts(conf[p]) /\ Searching(p)
      /\ cur[p] \in Addr /\ Start(conf[p]) <= cur[p] /\ cur[p] <= End(conf[p])
      /\ endIP[p] \in Addr /\ Start(conf[p]) <= endIP[p] /\ endIP[p] <= End(conf[p])
  BY DEF Advance
<1>2. next \in Addr /\ Start(conf[p]) <= next /\ next <= End(conf[p])
  BY <1>1, NextOK
<1>3. \A a \in Addr : Passed(conf[p], endIP[p], next, a) =>
                       Passed(conf[p], endIP[p], cur[p], a) \/ a = cur[p]
  BY <1>1, PassedOK
<1>4. /\ pc[p] \in {"scan", "reserve"} /\ pc' = [pc EXCEPT ![p] = "scan"]
      /\ cur' = [cur EXCEPT ![p] = next]
      /\ UNCHANGED <<dir, lock, op, cid, conf, endIP, todo, result, granted, crashes, faults>>
  BY DEF Advance
<1> HIDE DEF next
<1>5. TypeOK' /\ CommandOK' /\ AddressOK' /\ Locked' /\ OneCommandPerId'
  BY <1>1, <1>2, <1>4
<1>6. HoldsOnDisk' /\ HoldsAlone' /\ HoldsFresh' /\ DelDrops' /\ RemovesOwn' /\ GrantedIsOnDisk'
  BY <1>4
<1>7. PassedAreTaken'
  BY <1>1, <1>3, <1>4
<1>8. WalkedAreFreed' /\ ExhaustedMeansFull' /\ ReleaseFreesAll'
  BY <1>4
<1> QED
  BY <1>5, <1>6, <1>7, <1>8

(* Get up to the reservation: the search starts in the range.              *)
LEMMA GetPreserves ==
    ASSUME IInv, NEW p \in Procs, RefuseRequest(p) \/ Request(p) \/ Search(p) \/ SearchFault(p) \/ Exhausted(p)
                                 \/ SkipGateway(p) \/ Try(p)
    PROVE  IInv'
<1> USE SentinelAssumption, EmptyIdAssumption
    DEF IInv, TypeOK, CommandOK, AddressOK, Locked, OneCommandPerId, HoldsOnDisk, HoldsAlone,
        HoldsFresh, DelDrops, RemovesOwn, GrantedIsOnDisk, PassedAreTaken, WalkedAreFreed,
        ExhaustedMeansFull, ReleaseFreesAll, PCs, Results, Live, InCritical, Holds, Successful,
        AddPCs, DelPCs, Searching, LockReliable, Names, Goto, Step, Finish, local, NoFault, Fault
<1>1. CASE RefuseRequest(p)
  BY <1>1 DEF RefuseRequest
<1>2. CASE Request(p)
  BY <1>2, RangeOK DEF Request, Admissible, InBounds
<1>3. CASE Search(p)
  <2> DEFINE from == SearchStart(conf[p], LastReservedIP)
             to == SearchEnd(conf[p], LastReservedIP)
  <2>1. conf[p] \in Confs /\ Accepts(conf[p]) /\ LastReservedIP \in Addr \cup {Nil}
    BY <1>3 DEF Search, SearchFrom, LastReservedIP
  <2>2. /\ to \in Addr /\ Start(conf[p]) <= to /\ to <= End(conf[p])
        /\ from = NextInRange(conf[p], to)
    BY <2>1, SearchOK
  <2>3. from \in Addr /\ Start(conf[p]) <= from /\ from <= End(conf[p])
    BY <2>1, <2>2, NextOK
  <2>4. \A a \in Addr : ~ Passed(conf[p], to, from, a)
    BY <2>1, <2>2, PassedOK
  <2>5. /\ pc[p] = "get" /\ pc' = [pc EXCEPT ![p] = "scan"] /\ conf[p].requested = Nil
        /\ cur' = [cur EXCEPT ![p] = from] /\ endIP' = [endIP EXCEPT ![p] = to]
        /\ UNCHANGED <<dir, lock, op, cid, conf, todo, result, granted, crashes>>
        /\ faults' \in Nat /\ (faults' = faults \/ faults' # 0)
    BY <1>3 DEF Search, SearchFrom
  <2> HIDE DEF from, to
  <2>6. TypeOK' /\ CommandOK' /\ AddressOK' /\ Locked' /\ OneCommandPerId'
    BY <2>1, <2>2, <2>3, <2>5
  <2>7. HoldsOnDisk' /\ HoldsAlone' /\ HoldsFresh' /\ DelDrops' /\ RemovesOwn' /\ GrantedIsOnDisk'
    BY <2>5
  <2>8. PassedAreTaken' /\ WalkedAreFreed' /\ ExhaustedMeansFull' /\ ReleaseFreesAll'
    BY <2>4, <2>5
  <2> QED
    BY <2>6, <2>7, <2>8
<1>4. CASE SearchFault(p)
  <2> DEFINE from == SearchStart(conf[p], Nil)
             to == SearchEnd(conf[p], Nil)
  <2>1. conf[p] \in Confs /\ Accepts(conf[p]) /\ Nil \in Addr \cup {Nil}
    BY <1>4 DEF SearchFault, SearchFrom
  <2>2. /\ to \in Addr /\ Start(conf[p]) <= to /\ to <= End(conf[p])
        /\ from = NextInRange(conf[p], to)
    BY <2>1, SearchOK
  <2>3. from \in Addr /\ Start(conf[p]) <= from /\ from <= End(conf[p])
    BY <2>1, <2>2, NextOK
  <2>4. \A a \in Addr : ~ Passed(conf[p], to, from, a)
    BY <2>1, <2>2, PassedOK
  <2>5. /\ pc[p] = "get" /\ pc' = [pc EXCEPT ![p] = "scan"] /\ conf[p].requested = Nil
        /\ cur' = [cur EXCEPT ![p] = from] /\ endIP' = [endIP EXCEPT ![p] = to]
        /\ UNCHANGED <<dir, lock, op, cid, conf, todo, result, granted, crashes>>
        /\ faults' \in Nat /\ (faults' = faults \/ faults' # 0)
    BY <1>4 DEF SearchFault, SearchFrom
  <2> HIDE DEF from, to
  <2>6. TypeOK' /\ CommandOK' /\ AddressOK' /\ Locked' /\ OneCommandPerId'
    BY <2>1, <2>2, <2>3, <2>5
  <2>7. HoldsOnDisk' /\ HoldsAlone' /\ HoldsFresh' /\ DelDrops' /\ RemovesOwn' /\ GrantedIsOnDisk'
    BY <2>5
  <2>8. PassedAreTaken' /\ WalkedAreFreed' /\ ExhaustedMeansFull' /\ ReleaseFreesAll'
    BY <2>4, <2>5
  <2> QED
    BY <2>6, <2>7, <2>8
<1>5. CASE Exhausted(p)
  <2>1. conf[p] \in Confs /\ Accepts(conf[p])
    BY <1>5 DEF Exhausted
  <2>2. ExhaustedMeansFull'
    <3>1. \A a \in Addr : Start(conf[p]) <= a /\ a <= End(conf[p]) /\ a # endIP[p] =>
              Passed(conf[p], endIP[p], cur[p], a)
      BY <1>5, <2>1, PassedOK DEF Exhausted
    <3>2. \A a \in Pool(conf[p]) :
              a \in Addr /\ Start(conf[p]) <= a /\ a <= End(conf[p]) /\ a # Gateway(conf[p])
      BY <2>1, RangeOK DEF Pool, Addr
    <3> QED
      BY <1>5, <3>1, <3>2 DEF Exhausted
  <2>3. TypeOK' /\ CommandOK' /\ AddressOK' /\ Locked' /\ OneCommandPerId'
    BY <1>5 DEF Exhausted
  <2> QED
    BY <1>5, <2>2, <2>3 DEF Exhausted
<1>6. CASE SkipGateway(p)
  <2>1. conf[p] \in Confs /\ Accepts(conf[p]) /\ conf[p].requested = Nil
    BY <1>6 DEF SkipGateway, Advance
  <2> QED
    BY <1>6, <2>1, AdvancePreserves DEF SkipGateway
<1>7. CASE Try(p)
  BY <1>7 DEF Try
<1> QED
  BY <1>1, <1>2, <1>3, <1>4, <1>5, <1>6, <1>7

(* Reserve: what is written to or removed from is the process's own file.  *)
LEMMA ReservePreserves ==
    ASSUME IInv, NEW p \in Procs, \/ Taken(p) \/ Create(p) \/ CreateFault(p) \/ WriteID(p)
                                 \/ WriteFault(p) \/ Close(p) \/ CloseFault(p) \/ Undo(p) \/ UndoFault(p)
                                 \/ Truncate(p) \/ WriteLast(p) \/ LastFault(p)
    PROVE  IInv'
<1> USE SentinelAssumption, EmptyIdAssumption
    DEF IInv, TypeOK, CommandOK, AddressOK, Locked, OneCommandPerId, HoldsOnDisk, HoldsAlone,
        HoldsFresh, DelDrops, RemovesOwn, GrantedIsOnDisk, PassedAreTaken, WalkedAreFreed,
        ExhaustedMeansFull, ReleaseFreesAll, PCs, Results, Live, InCritical, Holds, Successful,
        AddPCs, DelPCs, Searching, LockReliable, Names, Goto, Step, Finish, local, NoFault, Fault
<1>1. CASE Taken(p)
  <2>1. CASE conf[p].requested = Nil
    <3>1. Advance(p, "reserve") /\ cur[p] # endIP[p] /\ dir[cur[p]] # NoFile
      BY <1>1, <2>1 DEF Taken
    <3> QED
      BY <2>1, <3>1, AdvancePreserves
  <2>2. CASE conf[p].requested # Nil
    <3>1. Finish(p, "reserve", "taken") /\ UNCHANGED <<dir, lock, granted, crashes, faults>>
      BY <1>1, <2>2 DEF Taken, Advance
    <3>2. TypeOK' /\ CommandOK' /\ AddressOK' /\ Locked' /\ OneCommandPerId'
      BY <3>1
    <3> QED
      BY <3>1, <3>2
  <2> QED
    BY <2>1, <2>2
<1>2. CASE Create(p)
  <2>1. TypeOK' /\ CommandOK' /\ AddressOK' /\ Locked' /\ OneCommandPerId'
    BY <1>2 DEF Create
  <2>2. HoldsOnDisk' /\ HoldsAlone' /\ HoldsFresh'
    BY <1>2 DEF Create
  <2>3. DelDrops' /\ RemovesOwn' /\ GrantedIsOnDisk'
    BY <1>2 DEF Create
  <2>4. PassedAreTaken' /\ WalkedAreFreed' /\ ExhaustedMeansFull' /\ ReleaseFreesAll'
    BY <1>2 DEF Create
  <2> QED
    BY <2>1, <2>2, <2>3, <2>4
<1>3. CASE CreateFault(p)
  BY <1>3 DEF CreateFault
<1>4. CASE WriteID(p)
  <2>1. TypeOK' /\ CommandOK' /\ AddressOK' /\ Locked' /\ OneCommandPerId'
    BY <1>4 DEF WriteID
  <2>2. HoldsOnDisk' /\ HoldsAlone' /\ HoldsFresh'
    BY <1>4 DEF WriteID
  <2>3. DelDrops' /\ RemovesOwn' /\ GrantedIsOnDisk'
    BY <1>4 DEF WriteID
  <2>4. PassedAreTaken' /\ WalkedAreFreed' /\ ExhaustedMeansFull' /\ ReleaseFreesAll'
    BY <1>4 DEF WriteID
  <2> QED
    BY <2>1, <2>2, <2>3, <2>4
<1>5. CASE WriteFault(p)
  BY <1>5 DEF WriteFault
<1>6. CASE Close(p)
  BY <1>6 DEF Close
<1>7. CASE CloseFault(p)
  BY <1>7 DEF CloseFault
<1>8. CASE Undo(p)
  <2>1. TypeOK' /\ CommandOK' /\ AddressOK' /\ Locked' /\ OneCommandPerId'
    BY <1>8 DEF Undo
  <2>2. HoldsOnDisk' /\ HoldsAlone' /\ HoldsFresh'
    BY <1>8 DEF Undo
  <2>3. DelDrops' /\ RemovesOwn' /\ GrantedIsOnDisk'
    BY <1>8 DEF Undo
  <2>4. PassedAreTaken' /\ WalkedAreFreed' /\ ExhaustedMeansFull' /\ ReleaseFreesAll'
    <3>1. PassedAreTaken' /\ ExhaustedMeansFull'
      BY <1>8 DEF Undo
    <3>2. WalkedAreFreed' /\ ReleaseFreesAll'
      BY <1>8 DEF Undo
    <3> QED BY <3>1, <3>2
  <2> QED
    BY <2>1, <2>2, <2>3, <2>4
<1>9. CASE UndoFault(p)
  BY <1>9 DEF UndoFault
<1>10. CASE Truncate(p)
  BY <1>10 DEF Truncate
<1>11. CASE WriteLast(p)
  BY <1>11 DEF WriteLast
<1>12. CASE LastFault(p)
  <2>1. TypeOK' /\ CommandOK' /\ AddressOK' /\ Locked' /\ OneCommandPerId'
    <3>1. TypeOK'
      BY SMTT(30), <1>12 DEF LastFault
    <3>2. CommandOK' /\ OneCommandPerId'
      BY <1>12 DEF LastFault
    <3>3. AddressOK' /\ Locked'
      BY <1>12 DEF LastFault
    <3> QED BY <3>1, <3>2, <3>3
  <2>2. HoldsOnDisk' /\ HoldsAlone' /\ HoldsFresh'
    BY <1>12 DEF LastFault
  <2>3. DelDrops' /\ RemovesOwn' /\ GrantedIsOnDisk'
    BY <1>12 DEF LastFault
  <2>4. PassedAreTaken' /\ WalkedAreFreed' /\ ExhaustedMeansFull' /\ ReleaseFreesAll'
    BY <1>12 DEF LastFault
  <2> QED
    BY <2>1, <2>2, <2>3, <2>4
<1> QED
  BY <1>1, <1>2, <1>3, <1>4, <1>5, <1>6, <1>7, <1>8, <1>9, <1>10, <1>11, <1>12

(* ReleaseByID: what is removed belongs to the container being deleted.    *)
LEMMA ReleasePreserves ==
    ASSUME IInv, NEW p \in Procs, DelStep(p)
    PROVE  IInv'
<1> USE SentinelAssumption, EmptyIdAssumption
    DEF IInv, TypeOK, CommandOK, AddressOK, Locked, OneCommandPerId, HoldsOnDisk, HoldsAlone,
        HoldsFresh, DelDrops, RemovesOwn, GrantedIsOnDisk, PassedAreTaken, WalkedAreFreed,
        ExhaustedMeansFull, ReleaseFreesAll, PCs, Results, Live, InCritical, Holds, Successful,
        AddPCs, DelPCs, Searching, LockReliable, Names, Goto, Step, Finish, local, NoFault, Fault
<1>1. CASE Walk(p)
  BY <1>1 DEF Walk
<1>2. CASE WalkFault(p)
  BY <1>2 DEF WalkFault
<1>3. CASE Remove(p)
  <2>1. TypeOK' /\ CommandOK' /\ AddressOK' /\ Locked' /\ OneCommandPerId'
    BY <1>3 DEF Remove
  <2>2. HoldsOnDisk' /\ HoldsAlone' /\ HoldsFresh'
    BY <1>3 DEF Remove
  <2>3. DelDrops' /\ RemovesOwn' /\ GrantedIsOnDisk'
    BY <1>3 DEF Remove
  <2>4. PassedAreTaken' /\ WalkedAreFreed' /\ ExhaustedMeansFull' /\ ReleaseFreesAll'
    BY <1>3 DEF Remove
  <2> QED
    BY <2>1, <2>2, <2>3, <2>4
<1>4. CASE RemoveFault(p)
  BY <1>4 DEF RemoveFault
<1>5. CASE WalkDone(p)
  BY <1>5 DEF WalkDone
<1>6. ASSUME NEW f \in Names, Match(p, f)
      PROVE  IInv'
  BY <1>6 DEF Match
<1>7. ASSUME NEW f \in Names, Mismatch(p, f)
      PROVE  IInv'
  BY <1>7 DEF Mismatch, Pass
<1>8. ASSUME NEW f \in Names, ReadFault(p, f)
      PROVE  IInv'
  BY <1>8 DEF ReadFault, Pass
<1> QED
  BY <1>1, <1>2, <1>3, <1>4, <1>5, <1>6, <1>7, <1>8 DEF DelStep

(* Unlock, and the ways in which a process ends.                           *)
LEMMA ExitPreserves ==
    ASSUME IInv, NEW p \in Procs, Unlock(p) \/ Return(p) \/ PrintFault(p) \/ Crash(p)
    PROVE  IInv'
<1> USE SentinelAssumption, EmptyIdAssumption
    DEF IInv, TypeOK, CommandOK, AddressOK, Locked, OneCommandPerId, HoldsOnDisk, HoldsAlone,
        HoldsFresh, DelDrops, RemovesOwn, GrantedIsOnDisk, PassedAreTaken, WalkedAreFreed,
        ExhaustedMeansFull, ReleaseFreesAll, PCs, Results, Live, InCritical, Holds, Successful,
        AddPCs, DelPCs, Searching, LockReliable, Names, Goto, Step, Finish, local, NoFault, Fault
<1>1. CASE Unlock(p)
  BY <1>1 DEF Unlock
<1>2. CASE Return(p)
  <2>1. TypeOK' /\ CommandOK' /\ AddressOK' /\ Locked' /\ OneCommandPerId'
    BY <1>2 DEF Return, Exit
  <2>2. \A g \in granted' : g \in granted \/ (Successful(p) /\ g = <<cid[p], cur[p]>>)
    BY <1>2 DEF Return
  <2>3. HoldsOnDisk' /\ HoldsAlone' /\ HoldsFresh'
    BY <1>2, <2>2 DEF Return, Exit
  <2>4. GrantedIsOnDisk'
    BY <1>2, <2>2 DEF Return
  <2>5. DelDrops'
    <3> SUFFICES ASSUME NEW q \in Procs, op'[q] = "DEL", NEW g \in granted'
                 PROVE  g[1] # cid'[q]
      OBVIOUS
    <3>1. q # p /\ op[q] = "DEL" /\ cid'[q] = cid[q] /\ Live(p)
      BY <1>2 DEF Return, Exit
    <3>2. CASE g \in granted
      BY <3>1, <3>2
    <3>3. CASE Successful(p) /\ g = <<cid[p], cur[p]>>
      BY <3>1, <3>3
    <3> QED
      BY <2>2, <3>2, <3>3
  <2>6. RemovesOwn' /\ PassedAreTaken' /\ WalkedAreFreed' /\ ExhaustedMeansFull' /\ ReleaseFreesAll'
    BY <1>2 DEF Return, Exit
  <2> QED
    BY <2>1, <2>3, <2>4, <2>5, <2>6
<1>3. CASE PrintFault(p)
  BY <1>3 DEF PrintFault, Exit
<1>4. CASE Crash(p)
  BY <1>4 DEF Crash, Exit
<1> QED
  BY <1>1, <1>2, <1>3, <1>4

(* The inductive step.                                                     *)
LEMMA NextPreserves == IInv /\ [Next]_vars => IInv'
<1> SUFFICES ASSUME IInv, [Next]_vars PROVE IInv'
  OBVIOUS
<1>1. ASSUME NEW p \in Procs, NEW o \in {"ADD", "DEL"}, NEW i \in Ids, NEW c \in Confs,
             Begin(p, o, i, c)
      PROVE  IInv'
  BY <1>1, BeginPreserves
<1>2. ASSUME NEW p \in Procs, Progress(p) \/ Crash(p)
      PROVE  IInv'
  <2>1. CASE AddStep(p)
    BY <2>1, GetPreserves, ReservePreserves DEF AddStep
  <2>2. CASE DelStep(p)
    BY <2>2, ReleasePreserves
  <2> QED
    BY <1>2, <2>1, <2>2, OpenPreserves, ExitPreserves DEF Progress
<1>3. CASE UNCHANGED vars
  BY <1>3 DEF vars, IInv, TypeOK, CommandOK, AddressOK, Locked, OneCommandPerId, HoldsOnDisk,
      HoldsAlone, HoldsFresh, DelDrops, RemovesOwn, GrantedIsOnDisk, PassedAreTaken,
      WalkedAreFreed, ExhaustedMeansFull, ReleaseFreesAll, Live, InCritical, Holds,
      Successful, Searching, LockReliable
<1> QED
  BY <1>1, <1>2, <1>3 DEF Next

(* IInv is an invariant of the plugin.                                     *)
THEOREM Invariance == Spec => []IInv
BY InitOK, NextPreserves, PTL DEF Spec

-----------------------------------------------------------------------------
(* The variables of the processes and of the directory have their types.   *)
THEOREM TypeCorrect == Spec => []TypeOK
<1>1. IInv => TypeOK
  BY DEF IInv
<1> QED
  BY <1>1, Invariance, PTL

(* An address that an ADD returned stays reserved for its container until  *)
(* a DEL of that container, in spite of other ADDs and DELs, killed        *)
(* processes, failing system calls and even a lock that fails.             *)
THEOREM GrantsStayOnDisk == Spec => []GrantedIsOnDisk
<1>1. IInv => GrantedIsOnDisk
  BY DEF IInv
<1> QED
  BY <1>1, Invariance, PTL

(* The same for the address of an ADD that has yet to print its result.    *)
THEOREM PendingStaysOnDisk == Spec => []PendingIsOnDisk
<1>1. IInv => PendingIsOnDisk
  BY DEF IInv, HoldsOnDisk, Holds, Successful, PendingIsOnDisk, CommandOK
<1> QED
  BY <1>1, Invariance, PTL

(* A successful ADD returns an address of its configuration's range that   *)
(* is not the gateway, and the requested one if there is a request.        *)
THEOREM OnlyPoolAddresses == Spec => []ReturnsPoolAddress
<1>1. ASSUME IInv, NEW p \in Procs, Successful(p)
      PROVE  /\ cur[p] \in Pool(conf[p])
             /\ conf[p].requested # Nil => cur[p] = conf[p].requested
  <2>1. conf[p] \in Confs /\ Accepts(conf[p])
    BY <1>1 DEF IInv, CommandOK, Successful, Live
  <2>2. /\ cur[p] \in Addr /\ Start(conf[p]) <= cur[p] /\ cur[p] <= End(conf[p])
        /\ cur[p] # Gateway(conf[p])
        /\ conf[p].requested # Nil => cur[p] = conf[p].requested
    BY <1>1 DEF IInv, AddressOK, Holds
  <2> QED
    BY <2>1, <2>2, RangeOK DEF Pool, Addr
<1>2. IInv => ReturnsPoolAddress
  BY <1>1 DEF ReturnsPoolAddress, Successful
<1> QED
  BY <1>2, Invariance, PTL

(* A search gives up only when all of the range is taken, save the         *)
(* gateway and the address at which it stops.                              *)
THEOREM SearchIsComplete == Spec => []ExhaustedMeansFull
<1>1. IInv => ExhaustedMeansFull
  BY DEF IInv
<1> QED
  BY <1>1, Invariance, PTL

(* A DEL whose system calls succeed frees every address of its container.  *)
THEOREM ReleaseIsComplete == Spec => []ReleaseFreesAll
<1>1. IInv => ReleaseFreesAll
  BY DEF IInv
<1> QED
  BY <1>1, Invariance, PTL

-----------------------------------------------------------------------------
(* Whose hand a file is in.                                                *)

(* A step changes only a file that its process holds, or that names its    *)
(* container.                                                              *)
LEMMA StepKeepsOwners == IInv /\ [Next]_vars => OwnersChange
<1> SUFFICES ASSUME IInv, [Next]_vars PROVE OwnersChange
  OBVIOUS
<1> SUFFICES ASSUME NEW a \in Addr, dir[a] # NoFile, dir'[a] # dir[a]
             PROVE  \E p \in Procs : cur[p] = a /\
                        \/ Holds(p) /\ dir[a] = Empty /\ dir'[a] = cid[p]
                        \/ Holds(p) /\ dir[a] \in {Empty, cid[p]} /\ dir'[a] = NoFile
                        \/ op[p] = "DEL" /\ dir[a] = cid[p] /\ dir'[a] = NoFile
  BY DEF OwnersChange
<1>1. PICK p \in Procs : Create(p) \/ WriteID(p) \/ Undo(p) \/ Truncate(p) \/ WriteLast(p) \/ Remove(p)
  <2>1. PICK p \in Procs : \/ \E o \in {"ADD", "DEL"}, i \in Ids, c \in Confs : Begin(p, o, i, c)
                           \/ Progress(p) \/ Crash(p)
    BY DEF Next, vars
  <2>2. dir' # dir
    OBVIOUS
  <2> QED
    BY <2>1, <2>2 DEF Begin, Crash, Progress, Reject, OpenFault, Open, Lock, LockFault, AddStep, DelStep,
        Unlock, Return, PrintFault, RefuseRequest, Request, Search, SearchFault, SearchFrom, Exhausted,
        SkipGateway, Advance, Try, Taken, CreateFault, WriteFault, Close, CloseFault, UndoFault, LastFault,
        Walk, WalkFault, RemoveFault, WalkDone, Match, Mismatch, ReadFault, Pass
<1> USE SentinelAssumption DEF IInv, TypeOK, CommandOK, HoldsOnDisk, RemovesOwn, Holds, Names, Goto, Step, Finish,
        Live, AddPCs, DelPCs
<1>2. CASE Create(p)
  BY <1>2 DEF Create
<1>3. CASE WriteID(p)
  BY <1>3 DEF WriteID
<1>4. CASE Undo(p)
  BY <1>4 DEF Undo
<1>5. CASE Truncate(p) \/ WriteLast(p)
  BY <1>5 DEF Truncate, WriteLast
<1>6. CASE Remove(p)
  BY <1>6 DEF Remove
<1> QED
  BY <1>1, <1>2, <1>3, <1>4, <1>5, <1>6

(* A reservation changes hands only through the removal of its file, by    *)
(* the ADD that made it or by a DEL of the container that it names: not    *)
(* even without the lock does a DEL remove, in Remove, a file that has     *)
(* become somebody else's since Match has read it.                         *)
THEOREM OwnersKeepTheirFiles == Spec => [][OwnersChange]_vars
BY Invariance, StepKeepsOwners, PTL DEF Spec

-----------------------------------------------------------------------------
(* What is left behind in the directory.                                   *)

(* A step of a process, without a fault, leaves every file accounted for:  *)
(* an ADD creates the file it holds and hands over what it has created, a  *)
(* DEL has freed all files of its container when it unlocks.               *)
LEMMA StepAccounts ==
    ASSUME IInv, \A c \in Confs : Accepts(c), AllAccounted, crashes' = 0, faults' = 0,
           NEW p \in Procs, Progress(p) \/ Crash(p)
    PROVE  AllAccounted'
<1>a. crashes = 0 /\ faults = 0
  BY DEF IInv, TypeOK, Progress, AddStep, DelStep, Reject, OpenFault, Open, Lock, LockFault,
         RefuseRequest, Request, Search, SearchFault, SearchFrom, Exhausted, SkipGateway, Advance,
         Try, Taken, Create, CreateFault, WriteID, WriteFault, Close, CloseFault, Undo, UndoFault,
         Truncate, WriteLast, LastFault, Walk, WalkFault, Remove, RemoveFault, WalkDone, Match,
         Mismatch, ReadFault, Pass, Unlock, Return, PrintFault, Crash, NoFault, Fault
<1> SUFFICES ASSUME NEW a \in Addr, dir'[a] # NoFile PROVE Accounted(a)'
  BY DEF AllAccounted
<1> USE SentinelAssumption
    DEF Accounted, Holds, Successful, Live, TypeOK, PCs, Results, Names, Goto, Step, Finish, local,
        NoFault, Fault, IInv, CommandOK, HoldsOnDisk, HoldsAlone, ReleaseFreesAll, AddressOK,
        RemovesOwn
<1>b. dir[a] # NoFile => Accounted(a)
  BY <1>a DEF AllAccounted
<1>1. CASE Open(p)
  BY <1>b, <1>1 DEF Open
<1>2. CASE Lock(p)
  BY <1>b, <1>2 DEF Lock, AfterLock
<1>3. CASE RefuseRequest(p)
  BY <1>b, <1>3 DEF RefuseRequest
<1>4. CASE Request(p)
  BY <1>b, <1>4 DEF Request
<1>5. CASE Search(p)
  BY <1>b, <1>5 DEF Search, SearchFrom
<1>6. CASE Exhausted(p)
  BY <1>b, <1>6 DEF Exhausted
<1>7. CASE SkipGateway(p)
  BY <1>b, <1>7 DEF SkipGateway, Advance
<1>8. CASE Try(p)
  BY <1>b, <1>8 DEF Try
<1>9. CASE Taken(p)
  BY <1>b, <1>9 DEF Taken, Advance
<1>10. CASE Create(p)
  <2>1. CASE a = cur[p]
    BY <1>10, <2>1 DEF Create
  <2>2. CASE a # cur[p]
    <3>1. dir'[a] = dir[a]
      BY <1>10, <2>2 DEF Create
    <3>2. \A q \in Procs : Holds(q) => q # p
      BY <1>10 DEF Create
    <3>3. /\ op[p] = "ADD"
          /\ \A q \in Procs : q # p => pc'[q] = pc[q]
      <4>1. pc[p] = "reserve" /\ pc' = [pc EXCEPT ![p] = "write"]
        BY <1>10 DEF Create
      <4>2. op[p] = "ADD"
        BY <4>1 DEF AddPCs
      <4> QED BY <4>1, <4>2
    <3>4. UNCHANGED <<op, cid, cur, granted, result>>
      BY <1>10 DEF Create
    <3>5. Accounted(a)
      BY <1>b, <3>1
    <3> HIDE DEF IInv
    <3> QED BY <3>1, <3>2, <3>3, <3>4, <3>5
  <2> QED BY <2>1, <2>2
<1>11. CASE WriteID(p)
  BY <1>b, <1>11 DEF WriteID
<1>12. CASE Close(p)
  BY <1>b, <1>12 DEF Close
<1>13. CASE Undo(p)
  BY <1>b, <1>13 DEF Undo
<1>14. CASE Truncate(p)
  <2>1. dir'[a] = dir[a] /\ UNCHANGED <<op, cid, cur, granted, result>>
    BY <1>14 DEF Truncate
  <2>2. pc[p] = "truncate" /\ pc'[p] = "last" /\ \A q \in Procs : q # p => pc'[q] = pc[q]
    BY <1>14 DEF Truncate
  <2>3. Accounted(a)
    BY <1>b, <2>1
  <2> HIDE DEF IInv
  <2> QED BY <2>1, <2>2, <2>3
<1>15. CASE WriteLast(p)
  BY <1>b, <1>15 DEF WriteLast
<1>16. CASE Walk(p)
  BY <1>b, <1>16 DEF Walk
<1>17. CASE Remove(p)
  BY <1>b, <1>17 DEF Remove
<1>18. CASE WalkDone(p)
  BY <1>b, <1>a, <1>18 DEF WalkDone
<1>19. CASE Unlock(p)
  BY <1>b, <1>a, <1>19 DEF Unlock
<1>20. CASE Return(p)
  BY <1>b, <1>a, <1>20 DEF Return, Exit
<1>21. ASSUME NEW f \in Names, Match(p, f) PROVE Accounted(a)'
  BY <1>b, <1>21 DEF Match
<1>22. ASSUME NEW f \in Names, Mismatch(p, f) PROVE Accounted(a)'
  BY <1>b, <1>22 DEF Mismatch, Pass
<1>23. ~ Crash(p) /\ ~ Reject(p)
  BY <1>a DEF Crash, Reject
<1>24. /\ ~ OpenFault(p) /\ ~ LockFault(p) /\ ~ SearchFault(p) /\ ~ CreateFault(p)
       /\ ~ WriteFault(p) /\ ~ CloseFault(p) /\ ~ UndoFault(p) /\ ~ LastFault(p)
       /\ ~ WalkFault(p) /\ ~ RemoveFault(p) /\ ~ PrintFault(p)
       /\ \A f \in Names : ~ ReadFault(p, f)
  BY <1>a DEF OpenFault, LockFault, SearchFault, CreateFault, WriteFault, CloseFault, UndoFault,
              LastFault, WalkFault, RemoveFault, PrintFault, ReadFault
<1>25. CASE AddStep(p)
  <2> HIDE DEF Accounted
  <2> QED BY <1>3, <1>4, <1>5, <1>6, <1>7, <1>8, <1>9, <1>10, <1>11, <1>12, <1>13, <1>14, <1>15,
             <1>24, <1>25 DEF AddStep
<1>26. CASE DelStep(p)
  <2> HIDE DEF Accounted
  <2> QED BY <1>16, <1>17, <1>18, <1>21, <1>22, <1>24, <1>26 DEF DelStep
<1> HIDE DEF Accounted
<1> QED BY <1>1, <1>2, <1>19, <1>20, <1>23, <1>24, <1>25, <1>26 DEF Progress

(* A DEL that begins takes the addresses of its container over.            *)
LEMMA BeginAccounts ==
    ASSUME IInv, AllAccounted, NEW p \in Procs, NEW o \in {"ADD", "DEL"}, NEW i \in Ids,
           NEW c \in Confs, Begin(p, o, i, c)
    PROVE  AllAccounted'
<1> SUFFICES ASSUME crashes' = 0, faults' = 0, NEW a \in Addr, dir'[a] # NoFile
             PROVE  Accounted(a)'
  BY DEF AllAccounted
<1>1. Accounted(a) /\ dir'[a] = dir[a]
  BY DEF AllAccounted, Begin, NoFault
<1>2. CASE <<dir[a], a>> \in granted
  BY <1>1, <1>2 DEF Accounted, Begin, Live, Goto, IInv, TypeOK
<1>3. CASE <<dir[a], a>> \notin granted
  BY <1>1, <1>3
  DEF Accounted, Begin, Live, Goto, Holds, Successful, IInv, TypeOK, CommandOK
<1> QED BY <1>2, <1>3

(* If every configuration is accepted, nothing is killed and nothing       *)
(* fails, no address stays reserved for nobody: every ADD that gives up    *)
(* has reserved nothing, and every DEL frees all of its container's.       *)
THEOREM NothingLeaks ==
    ASSUME \A c \in Confs : Accepts(c)
    PROVE  Spec => []NoLeak
<1>1. Init => AllAccounted
  BY DEF Init, AllAccounted, Names
<1>2. IInv /\ AllAccounted /\ [Next]_vars => AllAccounted'
  <2> SUFFICES ASSUME IInv, AllAccounted, [Next]_vars, crashes' = 0, faults' = 0
               PROVE  AllAccounted'
    BY DEF AllAccounted
  <2>1. CASE UNCHANGED vars
    BY <2>1 DEF vars, AllAccounted, Accounted, Holds, Successful, Live
  <2> QED BY <2>1, StepAccounts, BeginAccounts DEF Next
<1>3. IInv /\ AllAccounted => NoLeak
  BY DEF AllAccounted, Accounted, NoLeak, IInv, CommandOK, HoldsOnDisk, Holds, Successful, Live
<1> QED BY <1>1, <1>2, <1>3, Invariance, PTL DEF Spec

(* A step without a fault makes no orphan: the file it leaves or creates   *)
(* empty is that of a process which is about to write it.                  *)
LEMMA NoNewOrphan ==
    ASSUME IInv, Empty \notin Ids, NEW p \in Procs, Progress(p), NoFault
    PROVE  Orphans' \subseteq Orphans
<1> SUFFICES ASSUME NEW a \in Addr, dir'[a] = Empty,
                    \A q \in Procs : pc'[q] \in {"write", "undo"} => cur'[q] # a
             PROVE  /\ dir[a] = Empty
                    /\ \A q \in Procs : pc[q] \in {"write", "undo"} => cur[q] # a
  BY DEF Orphans
<1> USE SentinelAssumption
    DEF TypeOK, PCs, Results, Names, Goto, Step, Finish, local, NoFault, IInv, CommandOK,
        HoldsOnDisk, Holds, AddressOK, Live
<1>1. CASE Reject(p)
  BY <1>1 DEF Reject
<1>2. CASE Open(p)
  BY <1>2 DEF Open
<1>3. CASE Lock(p)
  BY <1>3 DEF Lock, AfterLock
<1>4. CASE RefuseRequest(p)
  BY <1>4 DEF RefuseRequest
<1>5. CASE Request(p)
  BY <1>5 DEF Request
<1>6. CASE Search(p)
  BY <1>6 DEF Search, SearchFrom
<1>7. CASE Exhausted(p)
  BY <1>7 DEF Exhausted
<1>8. CASE SkipGateway(p)
  BY <1>8 DEF SkipGateway, Advance
<1>9. CASE Try(p)
  BY <1>9 DEF Try
<1>10. CASE Taken(p)
  BY <1>10 DEF Taken, Advance
<1>11. CASE Create(p)
  BY <1>11 DEF Create
<1>12. CASE WriteID(p)
  BY <1>12 DEF WriteID
<1>13. CASE Close(p)
  BY <1>13 DEF Close
<1>14. CASE Undo(p)
  BY <1>14 DEF Undo
<1>15. CASE Truncate(p)
  BY <1>15 DEF Truncate
<1>16. CASE WriteLast(p)
  BY <1>16 DEF WriteLast
<1>17. CASE Walk(p)
  BY <1>17 DEF Walk
<1>18. CASE Remove(p)
  BY <1>18 DEF Remove
<1>19. CASE WalkDone(p)
  BY <1>19 DEF WalkDone
<1>20. CASE Unlock(p)
  BY <1>20 DEF Unlock
<1>21. CASE Return(p)
  BY <1>21 DEF Return, Exit
<1>22. ASSUME NEW f \in Names, Match(p, f) \/ Mismatch(p, f)
       PROVE  /\ dir[a] = Empty
              /\ \A q \in Procs : pc[q] \in {"write", "undo"} => cur[q] # a
  BY <1>22 DEF Match, Mismatch, Pass
<1>23. /\ ~ OpenFault(p) /\ ~ LockFault(p) /\ ~ SearchFault(p) /\ ~ CreateFault(p)
       /\ ~ WriteFault(p) /\ ~ CloseFault(p) /\ ~ UndoFault(p) /\ ~ LastFault(p)
       /\ ~ WalkFault(p) /\ ~ RemoveFault(p) /\ ~ PrintFault(p)
       /\ \A f \in Names : ~ ReadFault(p, f)
  BY DEF OpenFault, LockFault, SearchFault, CreateFault, WriteFault, CloseFault, UndoFault,
         LastFault, WalkFault, RemoveFault, PrintFault, ReadFault, Fault
<1>24. CASE AddStep(p)
  BY <1>4, <1>5, <1>6, <1>7, <1>8, <1>9, <1>10, <1>11, <1>12, <1>13, <1>14, <1>15, <1>16,
     <1>23, <1>24 DEF AddStep
<1>25. CASE DelStep(p)
  BY <1>17, <1>18, <1>19, <1>22, <1>23, <1>25 DEF DelStep
<1> QED BY <1>1, <1>2, <1>3, <1>20, <1>21, <1>23, <1>24, <1>25 DEF Progress

(* A fault or a crash makes at most one, of the file that the process was  *)
(* about to write or to remove.                                            *)
LEMMA OneNewOrphan ==
    ASSUME IInv, NEW p \in Procs, Progress(p) \/ Crash(p), ~ NoFault
    PROVE  Orphans' \subseteq Orphans \cup {cur[p]} /\ crashes' + faults' = crashes + faults + 1
<1> DEFINE Harmless == /\ dir' = dir
                       /\ \A q \in Procs : q # p => pc'[q] = pc[q] /\ cur'[q] = cur[q]
                       /\ crashes' + faults' = crashes + faults + 1
<1> SUFFICES Harmless
  BY DEF Orphans
<1> USE DEF TypeOK, Goto, Step, Finish, local, Fault, IInv
<1>1. CASE OpenFault(p)
  BY <1>1 DEF OpenFault
<1>2. CASE LockFault(p)
  BY <1>2 DEF LockFault, AfterLock
<1>3. CASE SearchFault(p)
  BY <1>3 DEF SearchFault, SearchFrom
<1>4. CASE CreateFault(p)
  BY <1>4 DEF CreateFault
<1>5. CASE WriteFault(p)
  BY <1>5 DEF WriteFault
<1>6. CASE CloseFault(p)
  BY <1>6 DEF CloseFault
<1>7. CASE UndoFault(p)
  BY <1>7 DEF UndoFault
<1>8. CASE LastFault(p)
  BY <1>8 DEF LastFault
<1>9. CASE WalkFault(p)
  BY <1>9 DEF WalkFault
<1>10. CASE RemoveFault(p)
  BY <1>10 DEF RemoveFault
<1>11. CASE PrintFault(p)
  BY <1>11 DEF PrintFault, Exit
<1>12. CASE Crash(p)
  BY <1>12 DEF Crash, Exit
<1>13. ASSUME NEW f \in Names, ReadFault(p, f) PROVE Harmless
  BY <1>13 DEF ReadFault, Pass
<1>14. /\ ~ Reject(p) /\ ~ Open(p) /\ ~ Lock(p) /\ ~ Unlock(p) /\ ~ Return(p)
       /\ ~ RefuseRequest(p) /\ ~ Request(p) /\ ~ Search(p) /\ ~ Exhausted(p) /\ ~ SkipGateway(p)
       /\ ~ Try(p) /\ ~ Taken(p) /\ ~ Create(p) /\ ~ WriteID(p) /\ ~ Close(p) /\ ~ Undo(p)
       /\ ~ Truncate(p) /\ ~ WriteLast(p) /\ ~ Walk(p) /\ ~ Remove(p) /\ ~ WalkDone(p)
       /\ \A f \in Names : ~ Match(p, f) /\ ~ Mismatch(p, f)
  <2> HIDE DEF TypeOK, Goto, Step, Finish, local, Fault, IInv
  <2> QED BY DEF Reject, Open, Lock, Unlock, Return, RefuseRequest, Request, Search, Exhausted, SkipGateway,
                 Advance, Try, Taken, Create, WriteID, Close, Undo, Truncate, WriteLast, Walk, Remove,
                 WalkDone, Match, Mismatch
<1> HIDE DEF Harmless
<1> QED BY <1>1, <1>2, <1>3, <1>4, <1>5, <1>6, <1>7, <1>8, <1>9, <1>10, <1>11, <1>12, <1>13, <1>14
        DEF Progress, AddStep, DelStep

(* Every killed process and every failing system call costs the pool at    *)
(* most one address that no DEL can free, for any number of them.          *)
THEOREM OrphansAreBounded == Spec => []OrphanBound
<1>1. Init => OrphanBound
  <2> SUFFICES ASSUME Init PROVE OrphanBound
    OBVIOUS
  <2>1. Orphans = {}
    BY SentinelAssumption DEF Init, Orphans, Names
  <2> QED BY <2>1, FS_EmptySet DEF Init, OrphanBound
<1>2. IInv /\ OrphanBound /\ [Next]_vars => OrphanBound'
  <2> SUFFICES ASSUME IInv, OrphanBound, [Next]_vars, Empty \notin Ids
               PROVE  Cardinality(Orphans') <= crashes' + faults'
    BY DEF OrphanBound
  <2>1. IsFiniteSet(Orphans) /\ Cardinality(Orphans) \in Nat
    <3>1. IsFiniteSet(Addr)
      BY SentinelAssumption, FS_Interval DEF Addr
    <3>2. Orphans \subseteq Addr
      BY DEF Orphans
    <3> QED BY <3>1, <3>2, FS_Subset, FS_CardinalityType
  <2>2. Cardinality(Orphans) <= crashes + faults /\ crashes \in Nat /\ faults \in Nat
    BY DEF OrphanBound, IInv, TypeOK
  <2>3. ASSUME Orphans' \subseteq Orphans, UNCHANGED <<crashes, faults>>
        PROVE  Cardinality(Orphans') <= crashes' + faults'
    <3>1. Cardinality(Orphans') <= Cardinality(Orphans) /\ Cardinality(Orphans') \in Nat
      BY <2>1, <2>3, FS_Subset, FS_CardinalityType
    <3> QED BY <2>1, <2>2, <2>3, <3>1
  <2>4. ASSUME NEW x, Orphans' \subseteq Orphans \cup {x}, crashes' + faults' = crashes + faults + 1
        PROVE  Cardinality(Orphans') <= crashes' + faults'
    <3>1. /\ IsFiniteSet(Orphans \cup {x}) /\ Cardinality(Orphans \cup {x}) \in Nat
          /\ Cardinality(Orphans \cup {x}) <= Cardinality(Orphans) + 1
      <4>1. /\ IsFiniteSet(Orphans \cup {x})
            /\ Cardinality(Orphans \cup {x}) =
                  IF x \in Orphans THEN Cardinality(Orphans) ELSE Cardinality(Orphans) + 1
        BY <2>1, FS_AddElement
      <4> QED BY <2>1, <4>1
    <3>2. Cardinality(Orphans') <= Cardinality(Orphans \cup {x}) /\ Cardinality(Orphans') \in Nat
      BY <3>1, <2>4, FS_Subset, FS_CardinalityType
    <3> QED BY <2>1, <2>2, <2>4, <3>1, <3>2
  <2>5. ASSUME NEW p \in Procs, Progress(p) \/ Crash(p)
        PROVE  Cardinality(Orphans') <= crashes' + faults'
    <3>1. CASE NoFault
      <4>1. ~ Crash(p)
        BY <3>1 DEF NoFault, Crash, IInv, TypeOK
      <4> QED BY <2>3, <2>5, <3>1, <4>1, NoNewOrphan DEF NoFault
    <3>2. CASE ~ NoFault
      BY <2>4, <2>5, <3>2, OneNewOrphan
    <3> QED BY <3>1, <3>2
  <2>6. ASSUME NEW p \in Procs, NEW o \in {"ADD", "DEL"}, NEW i \in Ids, NEW c \in Confs,
               Begin(p, o, i, c)
        PROVE  Cardinality(Orphans') <= crashes' + faults'
    <3>1. Orphans' \subseteq Orphans
      BY <2>6 DEF Begin, Goto, Orphans, IInv, TypeOK
    <3> QED BY <2>3, <2>6, <3>1 DEF Begin, NoFault
  <2>7. CASE UNCHANGED vars
    <3>1. Orphans' = Orphans
      BY <2>7 DEF vars, Orphans
    <3> QED BY <2>3, <2>7, <3>1 DEF vars
  <2> QED BY <2>5, <2>6, <2>7 DEF Next
<1> QED BY <1>1, <1>2, Invariance, PTL DEF Spec

-----------------------------------------------------------------------------
(* The plugin implements AddressPool: every step leaves the addresses      *)
(* handed out alone, hands out an address that nobody holds, or drops      *)
(* those of the container that a DEL is started for.                       *)

(* The address that a Return hands out is usable and nobody's.             *)
LEMMA ReturnAcquires ==
    ASSUME IInv, NEW p \in Procs, Return(p), granted' # granted
    PROVE  cid[p] \in Ids /\ cur[p] \in Usable /\ APool!Acquire(cid[p], cur[p])
<1>1. Successful(p) /\ granted' = granted \cup {<<cid[p], cur[p]>>} /\ pc[p] = "return"
  BY DEF Return, Successful
<1>2. cid[p] \in Ids /\ conf[p] \in Confs /\ Accepts(conf[p])
  BY <1>1 DEF IInv, CommandOK, Live
<1>3. /\ cur[p] \in Addr /\ Start(conf[p]) <= cur[p] /\ cur[p] <= End(conf[p])
      /\ cur[p] # Gateway(conf[p])
  BY <1>1 DEF IInv, AddressOK, Holds
<1>4. cur[p] \in Pool(conf[p])
  BY <1>2, <1>3, RangeOK DEF Pool, Addr
<1>5. cur[p] \in Usable
  BY <1>2, <1>4 DEF Usable
<1>6. \A h \in granted : h[2] # cur[p]
  BY <1>1 DEF IInv, HoldsFresh, Holds
<1> QED
  BY <1>1, <1>2, <1>5, <1>6 DEF APool!Acquire

(* Get and Release with their locking, their retries and their failures    *)
(* are, for the container runtime, an AddressPool.                         *)
THEOREM ImplementsAddressPool == Spec => ImplementsPool
<1>1. Init => APool!Init
  BY DEF Init, APool!Init
<1>2. IInv /\ [Next]_vars => [APool!Next]_granted
  <2> SUFFICES ASSUME IInv, [Next]_vars, granted' # granted PROVE APool!Next
    OBVIOUS
  <2>1. ASSUME NEW p \in Procs, NEW o \in {"ADD", "DEL"}, NEW i \in Ids, NEW c \in Confs,
               Begin(p, o, i, c)
        PROVE  APool!Next
    BY <2>1 DEF Begin, APool!Next, APool!ReleaseAll
  <2>2. ASSUME NEW p \in Procs, Return(p)
        PROVE  APool!Next
    BY <2>2, ReturnAcquires DEF APool!Next
  <2>3. ASSUME NEW p \in Procs, Progress(p) \/ Crash(p), ~ Return(p)
        PROVE  granted' = granted
    BY <2>3 DEF Progress, AddStep, DelStep, Reject, OpenFault, Open, Lock, LockFault,
        RefuseRequest, Request, Search, SearchFault, SearchFrom, Exhausted, SkipGateway,
        Advance, Try, Taken, Create, CreateFault, WriteID, WriteFault, Close, CloseFault,
        Undo, UndoFault, Truncate, WriteLast, LastFault, Walk, WalkFault, Remove,
        RemoveFault, WalkDone, Match, Mismatch, ReadFault, Pass, Unlock, PrintFault, Crash
  <2>4. CASE UNCHANGED vars
    BY <2>4 DEF vars
  <2> QED
    BY <2>1, <2>2, <2>3, <2>4 DEF Next
<1> QED
  BY <1>1, <1>2, Invariance, PTL DEF Spec, ImplementsPool, APool!Spec
=============================================================================
