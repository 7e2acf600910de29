\* a GENET node sends a frame with a page: RingsAccounted is violated
CONSTANTS
  NQueue = 4
  NTx = 4
  NRx = 2
  IndexMod = 4
  DoneThresh = 2
  DiscardMax = 2
  Bufs = {1, 2, 3, 4}
  Phys <- MCPhys
  TxFrames <- MCTxFrames
  GenetTx <- MCTxFrames
  RxFrames <- MCRxFrames
SPECIFICATION Spec
INVARIANTS RingsAccounted
CHECK_DEADLOCK FALSE
