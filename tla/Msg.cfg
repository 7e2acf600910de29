\* replies arrive in time; the bounded workload ends, so the system may stop
CONSTANTS
  Cpus = {c0, c1}
  NicCpu = c0
  MayTimeOut = FALSE
  MaxSends = 2
  MaxReqs = 2
SPECIFICATION FairSpec
INVARIANTS NothingStranded OwnReply
PROPERTIES AllHandled WaitEnds
CHECK_DEADLOCK FALSE
