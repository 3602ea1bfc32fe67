SPECIFICATION Spec
CONSTANTS
  Size <- MC_Size
  CounterMod <- MC_CounterMod
  Zero = 0
  SenderBurst = 8
  TxDelta = 1
  TxTimes <- MC_TxTimes
  MaxTime = 3
  MaxSends = 5
  Int64Max = 100
  NoNode = NoNode
  MbufPool = 1
  NicMayRefuse = FALSE
  AppMayCrash = TRUE
  Talker = FALSE
  NMsgs = 1
  Interval = 1
  WakeupDelay = 0
  FirstTxTime = 1
INVARIANT TypeOK
INVARIANT CapacityNeverExceeded
PROPERTY SenderEmptiesQueues
