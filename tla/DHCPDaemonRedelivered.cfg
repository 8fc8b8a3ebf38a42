SPECIFICATION Spec
CONSTANTS
  h1 = h1  h2 = h2
  a1 = a1  a2 = a2
  c1 = c1  c2 = c2  k1 = k1  k2 = k2
  None = None
  Calls = {h1, h2}
  Attachments <- Pair
  ContainerOf <- PairContainers
  Keys = {k1, k2}
  KeyMaps <- DistinctKeys
  MaxLeases = 3
  MaxDeaths = 0
SYMMETRY Symmetry
INVARIANT MaintainedUntilRelease
