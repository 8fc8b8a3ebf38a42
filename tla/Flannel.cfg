SPECIFICATION Spec
CONSTANTS
  c1 = c1  a1 = a1  a2 = a2  a3 = a3
  NotString = NotString  Bad = Bad  NoFile = NoFile  Torn = Torn  None = None
  Containers = {c1}
  Attachments = {a1, a2, a3}
  ContainerOf <- MCContainerOf
  NetworkOf <- MCNetworkOf
  Delegate <- MCDelegate
  Envs <- MCEnvs
  MaxFaults = 2
  MaxCrashes = 1
INVARIANTS TypeOK NothingLeft MadeIsRecorded AttachedIsWhole
