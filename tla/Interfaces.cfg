SPECIFICATION Spec
CONSTANTS
  c1 = c1  c2 = c2  c3 = c3
  g1 = g1  g2 = g2  a1 = a1  a2 = a2
  None = None
  Containers = {c1, c2, c3}
  Addrs = {g1, g2, a1, a2}
  ConfOf <- OtherPlugins
  MaxCrashes = 0
  MaxFaults = 1
  MayLoseNetns = {c1, c2}
SYMMETRY AddressSymmetry
INVARIANTS DelSucceeds AttachedIsComplete ResourcesRemoved
