SPECIFICATION Spec
CONSTANTS
  p1 = p1  p2 = p2  p3 = p3
  c1 = c1  c2 = c2  c3 = c3
  Nil = Nil  LastFile = LastFile  NoFile = NoFile  Empty = Empty
  Procs = {p1, p2}
  Ids = {c1, c2}
  MaxAddr = 4
  Confs <- ConfsShared
  MaxCrashes = 1
  MaxFaults = 2
  LockMayFail = TRUE
SYMMETRY Symmetry
INVARIANTS IInv GrantedIsOnDisk ExhaustedMeansFull NoLeak OrphanBound
