\* two nodes exchange a page whose manager, a third node, only forwards
CONSTANTS
  Nodes = {0, 1, 2}
  Manager = 0
  Cpus = {c0}
  Users = {1, 2}
  CopysetBits = 4
  MaxVer = 2
  MaxChan = 1
SPECIFICATION FairSpec
PROPERTY FetchAnswered
