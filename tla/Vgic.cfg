SPECIFICATION FairSpec
CONSTANTS
  Cpus <- McCpus
  Remote = {3}
  NicCpu = 0
  Sgis = {0}
  Lrs = {0}
  RingSize = 2
  MaxSgis <- McMaxSgis
  MaxMsgs = 1
  MsgVcpus = {0, 2}
  Targets <- McTargets
  Timers = {0}
  Late = {2}
INVARIANTS PendirqOnce Kicked
PROPERTY Delivered
CHECK_DEADLOCK FALSE
