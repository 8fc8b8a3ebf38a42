SPECIFICATION Spec
CONSTANTS
  Nil = Nil  NoOption = NoOption  Error = Error
  Base = 4
  Width = 2
  Ones = {2, 4, 8, 16}
  Widths = {0, 1, 8, 9, 32, 33}
  MaxRoutes = 2
  Subnets <- MCSubnets
  Routers <- MCRouters
  Words <- MCWords
  Ambients <- MCAmbients
  Values <- MCValues
  Paths <- MCPaths
  PairLists <- MCPairLists
  Files <- MCFiles
INVARIANTS BytesAgree AcceptedRangeIsSound RoutesAreOffered ParametersArrive
