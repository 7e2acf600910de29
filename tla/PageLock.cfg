CONSTANTS
  Cpus = {c1, c2}
  NicCpu = c1
  Rx = rx
  MaxProcs = 3
SPECIFICATION FairSpec
INVARIANTS MutualExclusion NoLostWakeup
PROPERTIES AllServed ImplementsPageMonitor
