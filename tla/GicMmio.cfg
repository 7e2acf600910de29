SPECIFICATION FairSpec
CONSTANTS
  Versions = {2, 3}
  VcpusOf <- McVcpusOf
  Width = 2
  Accesses <- McAccesses
  MaxOps = 3
INVARIANTS TargetsAgree HwFollows
PROPERTIES AccessReturns ImplementsRegisterBank
CHECK_DEADLOCK FALSE
