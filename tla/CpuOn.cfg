SPECIFICATION FairSpec
CONSTANTS
  Vcpus <- McVcpus
  NodeOf <- McNodeOf
  BootVcpu = 0
  FirstVcpus = {0, 3}
  Entries <- McEntries
  MaxCalls <- McCalls
  BootFails = TRUE
INVARIANT EntersWhereAsked
PROPERTIES RunningUntouched CallsReturn EntersUnlessOverslept
CHECK_DEADLOCK FALSE
