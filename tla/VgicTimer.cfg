SPECIFICATION Spec
CONSTANTS
  Cpus <- McCpus
  Remote = {3}
  NicCpu = 0
  Sgis = {0}
  Lrs = {0, 1}
  RingSize = 2
  MaxSgis <- McMaxSgis
  MaxMsgs = 1
  MsgVcpus = {0, 2}
  Targets <- McTargets
  Timers = {0}
  Late = {2}
INVARIANT TimerInjected
CHECK_DEADLOCK FALSE
