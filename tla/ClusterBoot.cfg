\* two sub-nodes for a cluster of three: all of them are needed
SPECIFICATION FairSpec
CONSTANTS
  Main = Main
  Subs = {s1, s2}
  NrNode = 3
  NVcpu = 2
PROPERTY VmBoots
CHECK_DEADLOCK FALSE
