\* three nodes: requester, owner and manager can all be different
CONSTANTS
  Nodes = {0, 1, 2}
  Manager = 0
  Cpus = {c0}
  Users = {0, 1, 2}
  CopysetBits = 4
  MaxVer = 1
  MaxChan = 1
SPECIFICATION Spec
INVARIANTS TypeOK SingleOwner OwnerIsLatest CopiesTracked StaleIsDoomed NoPanic NoWaitCycle
