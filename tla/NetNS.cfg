SPECIFICATION FairSpec
CONSTANTS
  main = main  h1 = h1  home = home  a = a  b = b  None = None
  Threads = {0, 1, 2}
  Main = main
  Handlers = {h1}
  Workers = {1, 2}
  Given = {a}
  Fresh = {b}
  Home = home
  MaxFaults = 1
INVARIANTS TypeOK RunsInTarget ThreadsComeHome HostIsCallers MountsOwned
PROPERTY CallsReturn
