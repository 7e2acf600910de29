SPECIFICATION Spec
CONSTANTS
  Order = 3
  Classes = {"small", "large"}
  Blocks <- McBlocks
  CellBase = 1024
  Boards <- McBoards
  Cpus = {c0, c1}
  OwnIpas = {64, 65}
  RemoteIpas = {128, 129}
  PassIpas = {9}
  MaxOps = 2
INVARIANT PteFound
CHECK_DEADLOCK FALSE
