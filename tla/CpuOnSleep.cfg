SPECIFICATION FairSpec
CONSTANTS
  Vcpus <- McVcpus
  NodeOf <- McNodeOf
  BootVcpu = 0
  FirstVcpus = {0, 3}
  Entries <- McEntries
  MaxCalls <- McCalls
  BootFails = TRUE
PROPERTY SuccessMeansEntry
CHECK_DEADLOCK FALSE
