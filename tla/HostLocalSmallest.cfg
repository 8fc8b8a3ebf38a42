SPECIFICATION Spec
CONSTANTS
  p1 = p1  p2 = p2  p3 = p3
  c1 = c1  c2 = c2  c3 = c3
  Nil = Nil  LastFile = LastFile  NoFile = NoFile  Empty = Empty
  Procs = {p1, p2}
  Ids = {c1, c2}
  MaxAddr = 4
  Confs <- ConfsSmallest
  MaxCrashes = 0
  MaxFaults = 0
  LockMayFail = FALSE
INVARIANT ExhaustedMeansNoneFree
