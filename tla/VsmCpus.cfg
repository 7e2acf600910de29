\* two nodes with two cpus each: the cpus of a node compete for the page
CONSTANTS
  Nodes = {0, 1}
  Manager = 0
  Cpus = {c0, c1}
  Users = {0, 1}
  CopysetBits = 4
  MaxVer = 2
  MaxChan = 2
SPECIFICATION FairSpec
INVARIANTS ReplyMatchesFault
PROPERTIES FetchAnswered StaleGoesAway ImplementsCoherentPage
