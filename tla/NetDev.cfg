\* rings of four descriptors and two receive buffers; indices wrap at 4
CONSTANTS
  NQueue = 4
  NTx = 4
  NRx = 2
  IndexMod = 4
  DoneThresh = 2
  DiscardMax = 2
  Bufs = {1, 2, 3, 4}
  Phys <- MCPhys
  TxFrames <- MCTxFrames
  GenetTx <- MCGenetTx
  RxFrames <- MCRxFrames
SPECIFICATION FairSpec
INVARIANTS RingsAccounted
PROPERTIES ImplementsFrameService FramesMove
CHECK_DEADLOCK FALSE
