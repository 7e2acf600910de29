SPECIFICATION Spec
CONSTANTS
  Order = 3
  Classes = {"small", "large"}
  Blocks <- McBlocks
  CellBase = 1024
  Boards <- McBoards
  Cpus = {c0, c1}
  OwnIpas = {64, 65}
  RemoteIpas = {66, 128}
  PassIpas = {9}
  MaxOps = 3
INVARIANTS PagesAccounted MapsAsAsked DevicesFound
CHECK_DEADLOCK FALSE
