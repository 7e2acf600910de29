\* a reply can come after the sender has stopped waiting
CONSTANTS
  Cpus = {c0, c1}
  NicCpu = c0
  MayTimeOut = TRUE
  MaxSends = 1
  MaxReqs = 1
SPECIFICATION Spec
INVARIANT NoNullReply
CHECK_DEADLOCK FALSE
