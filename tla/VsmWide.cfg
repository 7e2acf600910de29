\* a node id that does not fit the copyset field; a panic stops the system
CONSTANTS
  Nodes = {0, 1, 4}
  Manager = 0
  Cpus = {c0}
  Users = {0, 1, 4}
  CopysetBits = 4
  MaxVer = 1
  MaxChan = 1
SPECIFICATION Spec
INVARIANT NoUnreachable
CHECK_DEADLOCK FALSE
