SPECIFICATION FairSpec
CONSTANTS
  Main = Main
  Subs = {s1, s2, s3}
  NrNode = 3
  NVcpu = 2
INVARIANTS BootAfterSetup NoPanic TablesAgree
PROPERTY BootsUnlessOverslept
CHECK_DEADLOCK FALSE
