\* The NIC may refuse frames (a port whose port_init failed, or a full
\* descriptor ring) and the mempool holds one rte_mbuf: after one refused
\* frame the next due packet finds the mempool empty.
SPECIFICATION Spec
CONSTANTS
  Size <- MC_Size
  CounterMod <- MC_CounterMod
  Zero = 0
  SenderBurst = 8
  TxDelta = 1
  TxTimes <- MC_TxTimes
  MaxTime = 3
  MaxSends = 4
  Int64Max = 100
  NoNode = NoNode
  MbufPool = 1
  NicMayRefuse = TRUE
  AppMayCrash = FALSE
  Talker = FALSE
  NMsgs = 1
  Interval = 1
  WakeupDelay = 0
  FirstTxTime = 1
INVARIANT SenderSurvivesNicErrors
